---- MODULE Spec2Model ----
(***************************************************************************)
(* Resilient fetch orchestration of hacktivity: the per-endpoint circuit   *)
(* breaker (core/circuit_breaker.py), the chunk engine (core/chunking.py), *)
(* the progress store (core/state.py) and the worker-pool orchestrator     *)
(* (core/parallel.py).                                                     *)
(*                                                                         *)
(* SpecBreaker  threads calling protected_call on the breakers             *)
(* SpecOrch     repeated orchestrator runs over a list of repositories     *)
(***************************************************************************)
EXTENDS Integers, Sequences, FiniteSets, TLC

\* ------------------------------------------------------------------ bounds
NumEndpoints == 2
NumThreads == 2
MaxTime == 4
MaxThreshold == 2
MaxCooldown == 2
NumRepositories == 2
MaxChunks == 2
MaxRuns == 2
MaxWorkers == 2
MaxSpan == 6
MaxChunkDays == 3
MaxCapacity == 2
MaxCalls == 3
MaxRows == 2
MaxRetries == 1
MaxCommits == 2
MinChunkDays == 5
FetchChunks == 3
MaxAttempts == 3
FetchCapacity == 3

Endpoints == 1..NumEndpoints
Threads == 1..NumThreads

VARIABLES
    now,        \* time.time(), in whole seconds
    cfg,        \* config.github: cb_failure_threshold, cb_cooldown_sec
    circuits,   \* _PersistentStore: the circuits table, endpoint -> row
    breakers,   \* _BREAKERS: endpoint -> fields of the CircuitBreaker instance
    callers,    \* per thread: where it is inside CircuitBreaker.call
    event,      \* what the last step did, as its caller observes it
    streak,     \* history: failing calls per endpoint since the last success
    constructed,\* history: CircuitBreaker objects built per endpoint in this process
    args,       \* the since / until arguments of the orchestrator calls
    db,         \* StateManager: the operations and repository_progress tables
    chunk_cache,\* cache entries under get_chunk_state_key, per repository
    run,        \* frame of the running orchestrator call
    tasks,      \* per repository: frame of fetch_repo_commits_chunked
    returned,   \* what the last orchestrator call gave its caller
    hist,       \* history of the current run: fetch calls, state found at its start
    dates,      \* the arguments of a create_date_chunks call
    date_chunks,\* what that call returned or raised
    limiter,    \* RateLimitCoordinator: _capacity, and _tokens in 1/3600 of a token
    acquirers,  \* per thread: where it is inside RateLimitCoordinator.acquire
    lim_hist,   \* history: acquire calls made and returned before the first refill
    store_event,\* the last StateManager call made directly on the progress store
    chunk_results_arg, \* the argument of an aggregate_chunk_results call
    aggregated, \* what that call returned or raised
    call,       \* frame of a direct fetch_repo_commits_chunked / retry_failed_chunks call
    assigned,   \* history: chunk index -> sub-range the chunked run fetched for it
    fetch       \* frame of the chunk loop of one repository around fetch_repo_commits

cbVars == <<now, circuits, breakers, callers, event, streak, constructed>>

orchVars == <<args, db, chunk_cache, run, tasks, returned, hist>>

chunkVars == <<dates, date_chunks>>

\* what the breaker and the orchestrator steps leave alone
limVars == <<limiter, acquirers, lim_hist>>

storeVars == <<store_event>>

aggVars == <<chunk_results_arg, aggregated>>

extraVars == <<call, assigned, fetch>>

otherVars == <<chunkVars, limVars, storeVars, aggVars, extraVars>>

vars == <<now, cfg, circuits, breakers, callers, event, streak, constructed,
          args, db, chunk_cache, run, tasks, returned, hist, otherVars>>

\* ------------------------------------------------------- circuit breaker
CLOSED == "closed"
OPEN == "open"
HALF_OPEN == "half_open"
CircuitState == {CLOSED, OPEN, HALF_OPEN}

NoRow == [state |-> "none", failures |-> 0, opened_at |-> 0]
NoBreaker == [_state |-> "none", _failures |-> 0, _opened_at |-> 0]
Idle == [pc |-> "idle", endpoint |-> 0, probe |-> FALSE]
\* event: op is what the step gave its caller, func what the wrapped function did
\* in it, probe whether the call had moved the breaker from OPEN to HALF_OPEN
Ev(op, t, e, func, probe) ==
    [op |-> op, thread |-> t, endpoint |-> e, func |-> func, probe |-> probe]
NoEvent == Ev("none", 0, 0, "none", FALSE)

\* _PersistentStore.load: the stored row, or (CLOSED, 0, 0.0) when there is none
load(endpoint) ==
    IF circuits[endpoint] = NoRow
    THEN [_state |-> CLOSED, _failures |-> 0, _opened_at |-> 0]
    ELSE [_state |-> circuits[endpoint].state,
          _failures |-> circuits[endpoint].failures,
          _opened_at |-> circuits[endpoint].opened_at]

\* a save that stores the state and the failure count but not opened_at
save_without_opened_at(b) == [state |-> b._state, failures |-> b._failures, opened_at |-> 0]

\* _PersistentStore.save: REPLACE INTO circuits
save(b) == [state |-> b._state, failures |-> b._failures, opened_at |-> b._opened_at]

\* a registry that never finds the endpoint
in_BREAKERS_never(endpoint) == FALSE

\* `endpoint in _BREAKERS`
in_BREAKERS(endpoint) == breakers[endpoint] # NoBreaker

\* get_circuit: the registered instance, or a new one loaded from the store
get_circuit(endpoint) ==
    IF ~in_BREAKERS(endpoint) THEN load(endpoint) ELSE breakers[endpoint]

\* _check_and_transition_state without the cooldown test
_check_and_transition_state_eager(b) ==
    IF b._state = OPEN
    THEN [_state |-> HALF_OPEN, _failures |-> 0, _opened_at |-> b._opened_at]
    ELSE b

\* _check_and_transition_state keeping the failure count
_check_and_transition_state_keep(b) ==
    IF b._state = OPEN /\ now - b._opened_at >= cfg.cb_cooldown_sec
    THEN [_state |-> HALF_OPEN, _failures |-> b._failures, _opened_at |-> b._opened_at]
    ELSE b

\* _check_and_transition_state that counts a call made while the breaker stays
\* OPEN as a failure and restarts the cooldown
_check_and_transition_state_counting(b) ==
    IF b._state = OPEN /\ now - b._opened_at >= cfg.cb_cooldown_sec
    THEN [_state |-> HALF_OPEN, _failures |-> 0, _opened_at |-> b._opened_at]
    ELSE IF b._state = OPEN
    THEN [_state |-> OPEN, _failures |-> b._failures + 1, _opened_at |-> now]
    ELSE b

\* CircuitBreaker._check_and_transition_state, as the fields it leaves
_check_and_transition_state(b) ==
    IF b._state = OPEN /\ now - b._opened_at >= cfg.cb_cooldown_sec
    THEN [_state |-> HALF_OPEN, _failures |-> 0, _opened_at |-> b._opened_at]
    ELSE b

\* _on_failure with the threshold compared by > instead of >=
_on_failure_late(b) ==
    LET f == b._failures + 1 IN
    IF (b._state = HALF_OPEN \/ f > cfg.cb_failure_threshold) /\ b._state # OPEN
    THEN [_state |-> OPEN, _failures |-> f, _opened_at |-> now]
    ELSE [_state |-> b._state, _failures |-> f, _opened_at |-> b._opened_at]

\* _on_failure without the HALF_OPEN case
_on_failure_threshold_only(b) ==
    LET f == b._failures + 1 IN
    IF f >= cfg.cb_failure_threshold /\ b._state # OPEN
    THEN [_state |-> OPEN, _failures |-> f, _opened_at |-> now]
    ELSE [_state |-> b._state, _failures |-> f, _opened_at |-> b._opened_at]

\* _on_failure that opens without setting opened_at
_on_failure_no_stamp(b) ==
    LET f == b._failures + 1 IN
    IF (b._state = HALF_OPEN \/ f >= cfg.cb_failure_threshold) /\ b._state # OPEN
    THEN [_state |-> OPEN, _failures |-> f, _opened_at |-> b._opened_at]
    ELSE [_state |-> b._state, _failures |-> f, _opened_at |-> b._opened_at]

\* CircuitBreaker._on_failure, as the fields it leaves
_on_failure(b) ==
    LET f == b._failures + 1 IN
    IF (b._state = HALF_OPEN \/ f >= cfg.cb_failure_threshold) /\ b._state # OPEN
    THEN [_state |-> OPEN, _failures |-> f, _opened_at |-> now]
    ELSE [_state |-> b._state, _failures |-> f, _opened_at |-> b._opened_at]

\* _on_success that closes the breaker but keeps the failure count
_on_success_keep(b) == [_state |-> CLOSED, _failures |-> b._failures, _opened_at |-> 0]

\* CircuitBreaker._on_success, as the fields it leaves
_on_success(b) == [_state |-> CLOSED, _failures |-> 0, _opened_at |-> 0]

\* CircuitOpenError(endpoint)
CircuitOpenError(endpoint) == [op |-> "CircuitOpenError", endpoint |-> endpoint]

\* protected_call up to the point where func() starts: get_circuit, then the
\* locked prologue of CircuitBreaker.call (transition check, rejection if OPEN)
CallEnter(t, e) ==
    /\ callers[t].pc = "idle"
    /\ LET b0 == get_circuit(e)
           b1 == _check_and_transition_state(b0)
       IN /\ breakers' = [breakers EXCEPT ![e] = b1]
          /\ circuits' = IF b1 # b0 THEN [circuits EXCEPT ![e] = save(b1)] ELSE circuits
          /\ IF b1._state = OPEN
             THEN /\ callers' = callers
                  /\ event' = Ev(CircuitOpenError(e).op, t, CircuitOpenError(e).endpoint,
                               "not_invoked", FALSE)
             ELSE /\ callers' = [callers EXCEPT ![t] =
                                    [pc |-> "func", endpoint |-> e, probe |-> b1 # b0]]
                  /\ event' = Ev("admitted", t, e, "invoked", b1 # b0)
    /\ constructed' = IF in_BREAKERS(e) THEN constructed
                      ELSE [constructed EXCEPT ![e] = IF @ < 2 THEN @ + 1 ELSE @]
    /\ UNCHANGED <<now, cfg, streak>>
    /\ UNCHANGED orchVars
    /\ UNCHANGED otherVars

\* func() returns: _on_success, then the result goes to the caller
FuncReturn(t) ==
    /\ callers[t].pc = "func"
    /\ LET e == callers[t].endpoint
           b == _on_success(breakers[e])
       IN /\ breakers' = [breakers EXCEPT ![e] = b]
          /\ circuits' = [circuits EXCEPT ![e] = save(b)]
          /\ event' = Ev("result", t, e, "returned", callers[t].probe)
          /\ streak' = [streak EXCEPT ![e] = 0]
    /\ callers' = [callers EXCEPT ![t] = Idle]
    /\ UNCHANGED <<now, cfg, constructed>>
    /\ UNCHANGED orchVars
    /\ UNCHANGED otherVars

\* func() raises: _on_failure, then the exception is re-raised
FuncRaise(t) ==
    /\ callers[t].pc = "func"
    /\ LET e == callers[t].endpoint
           b == _on_failure(breakers[e])
       IN /\ breakers' = [breakers EXCEPT ![e] = b]
          /\ circuits' = [circuits EXCEPT ![e] = save(b)]
          /\ event' = Ev("exception", t, e, "raised", callers[t].probe)
          /\ streak' = [streak EXCEPT ![e] =
                           IF @ > cfg.cb_failure_threshold THEN @ ELSE @ + 1]
    /\ callers' = [callers EXCEPT ![t] = Idle]
    /\ UNCHANGED <<now, cfg, constructed>>
    /\ UNCHANGED orchVars
    /\ UNCHANGED otherVars

\* the clock advances by one second
Tick ==
    /\ now < MaxTime
    /\ now' = now + 1
    /\ event' = Ev("tick", 0, 0, "none", FALSE)
    /\ UNCHANGED <<cfg, circuits, breakers, callers, streak, constructed>>
    /\ UNCHANGED orchVars
    /\ UNCHANGED otherVars

\* the process ends and a new one starts: _BREAKERS is empty again, the calls
\* in flight are gone, the circuits table is what was saved
Restart ==
    /\ \E e \in Endpoints : breakers[e] # NoBreaker
    /\ breakers' = [e \in Endpoints |-> NoBreaker]
    /\ callers' = [t \in Threads |-> Idle]
    /\ event' = Ev("restart", 0, 0, "none", FALSE)
    /\ constructed' = [e \in Endpoints |-> 0]
    /\ UNCHANGED <<now, cfg, circuits, streak>>
    /\ UNCHANGED orchVars
    /\ UNCHANGED otherVars

\* -------------------------------------------------------- progress store
OperationIds == {"op1"}
Repos == 1..NumRepositories

\* the `repositories` argument: a list of distinct names
repositories == [k \in 1..NumRepositories |-> k]

\* an optional argument: None, or Some(v)
None == <<>>
Some(v) == <<v>>

\* dict[k] = v
Put(d, k, v) == [x \in DOMAIN d \cup {k} |-> IF x = k THEN v ELSE d[x]]

NoOperation ==
    [status |-> "none", total_repositories |-> 0, completed_repositories |-> 0,
     total_commits |-> 0, error_message |-> "NULL"]

\* StateManager.create_operation: the row it inserts
create_operation ==
    [status |-> "pending", total_repositories |-> 0, completed_repositories |-> 0,
     total_commits |-> 0, error_message |-> "NULL"]

\* the row add_repositories_to_operation inserts, with the column defaults
RepositoryProgress(operation_id, repository_name) ==
    [operation_id |-> operation_id, repository_name |-> repository_name,
     status |-> "pending", commit_count |-> 0, chunk_count |-> 0,
     completed_chunks |-> 0, error_message |-> "NULL", retry_count |-> 0]

\* UPDATE operations ... WHERE id = ?: no row, no change
UpdateOperation(d, operation_id, fields) ==
    IF d.operations[operation_id] = NoOperation THEN d
    ELSE [d EXCEPT !.operations[operation_id] =
             [f \in DOMAIN @ |-> IF f \in DOMAIN fields THEN fields[f] ELSE @[f]]]

\* StateManager.update_operation_status
update_operation_status(d, operation_id, status, error_message) ==
    UpdateOperation(d, operation_id,
        IF error_message # None
        THEN [status |-> status, error_message |-> error_message[1]]
        ELSE [status |-> status])

\* StateManager.add_repositories_to_operation: one INSERT per name, then the total
add_repositories_to_operation(d, operation_id, names) ==
    UpdateOperation(
        [d EXCEPT !.repository_progress =
            @ \o [k \in 1..Len(names) |-> RepositoryProgress(operation_id, names[k])]],
        operation_id, [total_repositories |-> Len(names)])

RECURSIVE SumCommitCount(_, _)
\* SELECT COALESCE(SUM(commit_count), 0) ... WHERE operation_id = ?
SumCommitCount(rows, operation_id) ==
    IF rows = <<>> THEN 0
    ELSE (IF Head(rows).operation_id = operation_id THEN Head(rows).commit_count ELSE 0)
         + SumCommitCount(Tail(rows), operation_id)

\* SELECT COUNT(*) ... WHERE operation_id = ? AND status IN ('completed', 'skipped')
CountCompleted(rows, operation_id) ==
    Cardinality({k \in DOMAIN rows :
        rows[k].operation_id = operation_id /\ rows[k].status \in {"completed", "skipped"}})

\* StateManager.update_repository_progress (track_repository_progress)
update_repository_progress(d, operation_id, repository_name, status, commit_count, chunk_count, completed_chunks, error_message) ==
    LET rows == [k \in DOMAIN d.repository_progress |->
                    LET r == d.repository_progress[k] IN
                    IF r.operation_id = operation_id /\ r.repository_name = repository_name
                    THEN [r EXCEPT
                            !.status = status,
                            !.commit_count = IF commit_count # None THEN commit_count[1] ELSE @,
                            !.chunk_count = IF chunk_count # None THEN chunk_count[1] ELSE @,
                            !.completed_chunks =
                                IF completed_chunks # None THEN completed_chunks[1] ELSE @,
                            !.error_message =
                                IF error_message # None THEN error_message[1] ELSE @,
                            !.retry_count = IF error_message # None THEN @ + 1 ELSE @]
                    ELSE r]
        d1 == [d EXCEPT !.repository_progress = rows]
        d2 == IF status \in {"completed", "skipped"}
              THEN UpdateOperation(d1, operation_id,
                       [completed_repositories |-> CountCompleted(rows, operation_id)])
              ELSE d1
    IN IF commit_count # None
       THEN UpdateOperation(d2, operation_id,
                [total_commits |-> SumCommitCount(rows, operation_id)])
       ELSE d2

RECURSIVE NamesInOrder(_, _)
\* the repository_name column of the rows ks, ORDER BY repository_name
NamesInOrder(rows, ks) ==
    IF ks = {} THEN <<>>
    ELSE LET k == CHOOSE k \in ks : \A j \in ks :
                    \/ rows[k].repository_name < rows[j].repository_name
                    \/ rows[k].repository_name = rows[j].repository_name /\ k <= j
         IN <<rows[k].repository_name>> \o NamesInOrder(rows, ks \ {k})

\* StateManager.get_pending_repositories
get_pending_repositories(d, operation_id) ==
    NamesInOrder(d.repository_progress,
        {k \in DOMAIN d.repository_progress :
            /\ d.repository_progress[k].operation_id = operation_id
            /\ d.repository_progress[k].status \in {"pending", "in_progress", "failed"}})

\* get_operation_summary: progress_percentage, completed / total * 100 as a
\* fraction in hundredths of a percent, 0 when there is no repository
progress_percentage(operation) ==
    IF operation.total_repositories > 0
    THEN (operation.completed_repositories * 10000) \div operation.total_repositories
    ELSE 0

\* the operations and the status values of direct calls on the store
StoreOperationIds == {"op1", "op2"}
RepositoryStatus == {"pending", "in_progress", "completed", "failed", "skipped"}

NoStoreEvent ==
    [call |-> "none", operation_id |-> "none", repository_name |-> 0, status |-> "none"]

\* no direct call has been made on the store
StoreAtRest == store_event = NoStoreEvent

\* the rows of repository_progress that WHERE operation_id = ? AND
\* repository_name = ? selects
Matching(d, operation_id, repository_name) ==
    {k \in DOMAIN d.repository_progress :
        /\ d.repository_progress[k].operation_id = operation_id
        /\ d.repository_progress[k].repository_name = repository_name}

\* a call of StateManager.create_operation giving the id operation_id: a new
\* uuid4, which no row mentions yet
CreateOperation(operation_id) ==
    /\ db.operations[operation_id] = NoOperation
    /\ \A k \in DOMAIN db.repository_progress :
          db.repository_progress[k].operation_id # operation_id
    /\ db' = [db EXCEPT !.operations[operation_id] = create_operation]
    /\ store_event' = [NoStoreEvent EXCEPT !.call = "create_operation",
                                           !.operation_id = operation_id]
    /\ UNCHANGED <<args, chunk_cache, run, tasks, returned, hist, cfg>>
    /\ UNCHANGED <<extraVars, cbVars, chunkVars, limVars, aggVars>>

\* a call of StateManager.add_repositories_to_operation
AddRepositories(operation_id, names) ==
    /\ Len(db.repository_progress) + Len(names) <= MaxRows
    /\ db' = add_repositories_to_operation(db, operation_id, names)
    /\ store_event' = [NoStoreEvent EXCEPT !.call = "add_repositories_to_operation",
                                           !.operation_id = operation_id]
    /\ UNCHANGED <<args, chunk_cache, run, tasks, returned, hist, cfg>>
    /\ UNCHANGED <<extraVars, cbVars, chunkVars, limVars, aggVars>>

\* a call of StateManager.update_repository_progress
UpdateRepositoryProgress(operation_id, repository_name, status, commit_count, error_message) ==
    /\ error_message # None =>
          \A k \in Matching(db, operation_id, repository_name) :
              db.repository_progress[k].retry_count < MaxRetries
    /\ db' = update_repository_progress(db, operation_id, repository_name, status,
                  commit_count, None, None, error_message)
    /\ store_event' = [call |-> "update_repository_progress",
                       operation_id |-> operation_id,
                       repository_name |-> repository_name,
                       status |-> status]
    /\ UNCHANGED <<args, chunk_cache, run, tasks, returned, hist, cfg>>
    /\ UNCHANGED <<extraVars, cbVars, chunkVars, limVars, aggVars>>

\* ----------------------------------------------------------- chunk engine
max_days == 7

RECURSIVE DateChunks(_, _, _, _)
\* the loop of create_date_chunks, from current_date and chunk_index on
DateChunks(current_date, end_date, md, chunk_index) ==
    IF current_date > end_date THEN <<>>
    ELSE LET plus == current_date + (md - 1)
             chunk_end == IF plus < end_date THEN plus ELSE end_date
         IN <<[since |-> current_date, until |-> chunk_end, index |-> chunk_index]>>
            \o DateChunks(chunk_end + 1, end_date, md, chunk_index + 1)

\* create_date_chunks for start_date <= end_date (ValueError otherwise)
create_date_chunks(since, until, md) == DateChunks(since, until, md, 0)

\* datetime.max as a day number (9999-12-31): a datetime plus a timedelta beyond
\* it raises OverflowError
datetime_max == 3652059

RECURSIVE LoopOverflows(_, _, _)
\* the loop of create_date_chunks reaches an addition that leaves the datetime
\* range: current_date + timedelta(days=max_days - 1) or
\* chunk_end + timedelta(days=1)
LoopOverflows(current_date, end_date, md) ==
    IF current_date > end_date THEN FALSE
    ELSE \/ current_date + (md - 1) > datetime_max
         \/ LET plus == current_date + (md - 1)
                chunk_end == IF plus < end_date THEN plus ELSE end_date
            IN \/ chunk_end + 1 > datetime_max
               \/ LoopOverflows(chunk_end + 1, end_date, md)

\* what a create_date_chunks call raises ("none" when it returns)
create_date_chunks_raises(since, until, md) ==
    IF since > until THEN "ValueError"
    ELSE IF LoopOverflows(since, until, md) THEN "OverflowError"
    ELSE "none"

\* ChunkState(chunk_index, status) with the dataclass defaults
ChunkState(chunk_index, status) ==
    [chunk_index |-> chunk_index, status |-> status, commit_count |-> 0,
     error_message |-> "NULL"]

\* get_chunk_state_key, author_filter being the same in every call
get_chunk_state_key(repo_full_name, since, until) ==
    <<"chunk_state", repo_full_name, since, until>>

\* str(k) and int(s) of the JSON keys
str(k) == <<"str", k>>
int(s) == s[2]

NoEntry == [found |-> FALSE, chunks |-> <<>>, chunk_results |-> <<>>]

\* cache.get(state_key, max_age_hours=720) on an entry older than 30 days: the
\* entry is deleted and None is returned
expire(cache, state_key) == [cache EXCEPT ![state_key] = NoEntry]

\* save_chunk_state that writes nothing
save_chunk_state_lost(cache, state_key, chunk_states, chunk_results) == cache

\* save_chunk_state that writes the chunk states with an empty chunk_results
save_chunk_state_without_results(cache, state_key, chunk_states, chunk_results) ==
    [cache EXCEPT ![state_key] =
        [found |-> TRUE,
         chunks |-> [s \in {str(k) : k \in DOMAIN chunk_states} |-> chunk_states[int(s)]],
         chunk_results |-> <<>>]]

\* save_chunk_state: the cache with the entry written
save_chunk_state(cache, state_key, chunk_states, chunk_results) ==
    [cache EXCEPT ![state_key] =
        [found |-> TRUE,
         chunks |-> [s \in {str(k) : k \in DOMAIN chunk_states} |-> chunk_states[int(s)]],
         chunk_results |->
            [s \in {str(k) : k \in DOMAIN chunk_results} |-> chunk_results[int(s)]]]]

\* load_chunk_state that rebuilds the chunk states but not the chunk results
load_chunk_state_states_only(cache, state_key) ==
    IF ~cache[state_key].found THEN [chunk_states |-> <<>>, chunk_results |-> <<>>]
    ELSE [chunk_states |->
             [k \in {int(s) : s \in DOMAIN cache[state_key].chunks} |->
                 cache[state_key].chunks[str(k)]],
          chunk_results |-> <<>>]

\* load_chunk_state
load_chunk_state(cache, state_key) ==
    IF ~cache[state_key].found THEN [chunk_states |-> <<>>, chunk_results |-> <<>>]
    ELSE [chunk_states |->
             [k \in {int(s) : s \in DOMAIN cache[state_key].chunks} |->
                 cache[state_key].chunks[str(k)]],
          chunk_results |->
             [k \in {int(s) : s \in DOMAIN cache[state_key].chunk_results} |->
                 cache[state_key].chunk_results[str(k)]]]

\* a skip test that never skips
already_completed_never(chunk_states, chunk_index) == FALSE

\* the test that skips a chunk in process_chunks_with_state
already_completed(chunk_states, chunk_index) ==
    chunk_index \in DOMAIN chunk_states /\ chunk_states[chunk_index].status = "completed"

\* the values of 'commit_date': an ISO timestamp with a UTC offset ('...Z'), d
\* days after the epoch; an ISO timestamp without offset; a string that is no
\* ISO timestamp, or no key at all (the default ''); and None
Aware(d) == [kind |-> "aware", at |-> d]
Naive(d) == [kind |-> "naive", at |-> d]
Unparsable == [kind |-> "unparsable", at |-> 0]
NoneDate == [kind |-> "None", at |-> 0]

\* get_sort_key of aggregate_chunk_results: datetime.fromisoformat of the date,
\* or the epoch with timezone when that raises ValueError or TypeError
get_sort_key(commit) ==
    IF commit.commit_date.kind \in {"aware", "naive"} THEN commit.commit_date
    ELSE Aware(0)

\* what get_sort_key raises: None has no replace()
get_sort_key_raises(commit) ==
    IF commit.commit_date.kind = "None" THEN "AttributeError" ELSE "none"

RECURSIVE CollectChunks(_, _)
\* the first loop of aggregate_chunk_results, over sorted(chunk_results.keys())
CollectChunks(chunk_results, ks) ==
    IF ks = {} THEN <<>>
    ELSE LET k == CHOOSE k \in ks : \A j \in ks : k <= j
         IN [j \in 1..Len(chunk_results[k]) |->
                [sha |-> chunk_results[k][j].sha,
                 commit_date |-> chunk_results[k][j].commit_date,
                 _chunk_index |-> k]]
            \o CollectChunks(chunk_results, ks \ {k})

RECURSIVE SortNewestFirst(_)
\* list.sort(key=get_sort_key, reverse=True): stable, equal keys keep their order
SortNewestFirst(commits) ==
    IF commits = <<>> THEN <<>>
    ELSE LET n == Len(commits)
             x == commits[n]
             sorted == SortNewestFirst(SubSeq(commits, 1, n - 1))
             before == Cardinality({j \in 1..(n - 1) :
                                       get_sort_key(sorted[j]).at >= get_sort_key(x).at})
         IN SubSeq(sorted, 1, before) \o <<x>> \o SubSeq(sorted, before + 1, n - 1)

\* what list.sort raises: the keys are computed first; then an aware and a
\* naive datetime do not compare, and a sort compares across any two groups
sort_raises(commits) ==
    IF \E j \in DOMAIN commits : get_sort_key_raises(commits[j]) # "none"
    THEN "AttributeError"
    ELSE IF \E i, j \in DOMAIN commits :
                get_sort_key(commits[i]).kind # get_sort_key(commits[j]).kind
         THEN "TypeError"
         ELSE "none"

\* aggregate_chunk_results
aggregate_chunk_results(chunk_results) ==
    SortNewestFirst(CollectChunks(chunk_results, DOMAIN chunk_results))

\* what aggregate_chunk_results raises
aggregate_chunk_results_raises(chunk_results) ==
    sort_raises(CollectChunks(chunk_results, DOMAIN chunk_results))

RECURSIVE ApiCommits(_, _, _)
\* what the commits endpoint of a repository lists between two days, newest
\* first: repository r has one commit on each day d with d % 7 = r
ApiCommits(repo_full_name, since, until) ==
    IF until < since THEN <<>>
    ELSE (IF until % 7 = repo_full_name
          THEN <<[sha |-> <<repo_full_name, until>>, commit_date |-> Aware(until)]>>
          ELSE <<>>)
         \o ApiCommits(repo_full_name, since, until - 1)

\* fetch_repo_commits when it returns
fetch_repo_commits(repo_full_name, since, until) ==
    ApiCommits(repo_full_name, since, until)

\* how one call of fetch_repo_commits ends: it returns, it raises (a timeout after
\* the retries, CircuitOpenError without stale cache), or it calls sys.exit(1)
\* on CalledProcessError
FetchOutcomes == {"ok", "Exception", "SystemExit"}

\* ------------------------------------------------------------ orchestrator
NoRun ==
    [mode |-> "idle", repos_to_process |-> <<>>, pos |-> 0, results |-> <<>>,
     completed |-> 0, failed |-> 0]
NoTask ==
    [pc |-> "none", i |-> 0, chunk_states |-> <<>>, chunk_results |-> <<>>,
     raised |-> "no", result |-> <<>>]
Queued == [NoTask EXCEPT !.pc = "queued"]
NoReturn == [kind |-> "none", by |-> "none", map |-> <<>>]
NoHist ==
    [run |-> 0,
     fetches |-> [p \in Repos |-> [c \in 0..(MaxChunks - 1) |-> 0]],
     finished |-> [p \in Repos |-> {}],
     raised_chunks |-> [p \in Repos |-> {}],
     prior |-> [p \in Repos |-> [chunk_states |-> <<>>, chunk_results |-> <<>>]],
     done_before |-> {},
     first |-> NoReturn,
     clean |-> TRUE]

chunks == create_date_chunks(args.since, args.until, max_days)
state_key(p) == get_chunk_state_key(p, args.since, args.until)

\* tasks a worker thread is running
Active == {p \in Repos : tasks[p].pc \in {"direct", "chunk", "fetch"}}

\* a pool with one worker per submitted repository
executor_max_workers_one_each == Len(repositories)

\* ThreadPoolExecutor(max_workers=config.max_workers)
executor_max_workers == cfg.max_workers

\* the task of repository p may take its next step: in the pool a worker runs
\* it, in the sequential loop it is the repository the loop is at
Scheduled(p) ==
    \/ run.mode = "parallel"
    \/ /\ run.mode = "sequential"
       /\ run.pos <= Len(run.repos_to_process)
       /\ run.repos_to_process[run.pos] = p

\* an except branch that records nothing for the repository
except_result_dropped(results, repo_name) == results

\* the except branch of _worker and of the sequential loop: an empty list
except_result(results, repo_name) == Put(results, repo_name, <<>>)

\* a mark_done that counts successes only
mark_done_success_only(progress, success) ==
    [progress EXCEPT !.completed = IF success THEN @ + 1 ELSE @]

\* ProgressAggregator.mark_done, under its lock; the sequential loop counts in
\* the same way in its local completed_count and failed_count
mark_done(progress, success) ==
    [progress EXCEPT !.completed = IF success THEN @ + 1 ELSE @,
                     !.failed = IF success THEN @ ELSE @ + 1]

\* fetch_repo_commits_chunked returned `commits` for p: _worker returns them and
\* the main thread stores them; the sequential loop stores them and moves on
TaskReturned(p, commits) ==
    /\ run' = [mark_done(run, TRUE) EXCEPT !.results = Put(@, p, commits),
                          !.pos = IF run.mode = "sequential" THEN @ + 1 ELSE @]
    /\ tasks' = [tasks EXCEPT ![p] = [NoTask EXCEPT !.pc = "done", !.result = commits]]
    /\ returned' = returned

\* fetch_repo_commits_chunked raised an Exception for p: caught by `except
\* Exception` in _worker and in the sequential loop
TaskRaisedException(p, e) ==
    /\ run' = [mark_done(run, FALSE) EXCEPT !.results = except_result(@, p),
                          !.pos = IF run.mode = "sequential" THEN @ + 1 ELSE @]
    /\ tasks' = [tasks EXCEPT ![p] = [NoTask EXCEPT !.pc = "done", !.raised = e]]
    /\ returned' = returned

\* SystemExit left fetch_repo_commits_chunked for p: no `except Exception`
\* catches it. In the pool the future keeps it for future.result(); the
\* sequential loop is left at once and the orchestrator call raises
TaskRaisedSystemExit(p) ==
    /\ tasks' = [tasks EXCEPT ![p] = [NoTask EXCEPT !.pc = "done", !.raised = "SystemExit"]]
    /\ IF run.mode = "sequential"
       THEN run' = NoRun /\ returned' = [kind |-> "SystemExit", by |-> run.mode, map |-> <<>>]
       ELSE run' = run /\ returned' = returned

\* fetch_commits_parallel is called: the sequential branch through
\* process_repositories_with_operation_state up to its loop, or the submission
\* of one task per repository to the pool
StartRun(parallel_enabled) ==
    /\ run.mode = "idle"
    /\ hist.run < MaxRuns
    /\ LET op == "op1"
           d1 == add_repositories_to_operation(db, op, repositories)
           d2 == update_operation_status(d1, op, "in_progress", None)
           pending_repos == get_pending_repositories(d2, op)
           repos_to_process ==
               SelectSeq(repositories,
                   LAMBDA repo : \E k \in DOMAIN pending_repos : pending_repos[k] = repo)
       IN IF ~parallel_enabled \/ Len(repositories) <= 1
          THEN /\ db' = d2
               /\ IF repos_to_process = <<>>
                  THEN /\ run' = NoRun
                       /\ tasks' = [p \in Repos |-> NoTask]
                       /\ returned' = [kind |-> "map", by |-> "sequential", map |-> <<>>]
                  ELSE /\ run' = [NoRun EXCEPT !.mode = "sequential",
                                               !.repos_to_process = repos_to_process,
                                               !.pos = 1]
                       /\ tasks' = [p \in Repos |->
                              IF \E k \in DOMAIN repos_to_process : repos_to_process[k] = p
                              THEN Queued ELSE NoTask]
                       /\ returned' = NoReturn
          ELSE /\ db' = db
               /\ run' = [NoRun EXCEPT !.mode = "parallel",
                                       !.repos_to_process = repositories]
               /\ tasks' = [p \in Repos |-> Queued]
               /\ returned' = NoReturn
    /\ hist' = [NoHist EXCEPT
                  !.run = hist.run + 1,
                  !.first = hist.first,
                  !.clean = hist.clean,
                  !.done_before =
                      {k \in DOMAIN db.repository_progress :
                          /\ db.repository_progress[k].operation_id = "op1"
                          /\ db.repository_progress[k].status = "completed"}]
    /\ UNCHANGED <<args, chunk_cache, cfg>>
    /\ UNCHANGED cbVars
    /\ UNCHANGED otherVars

\* fetch_repo_commits_chunked from its start to the first fetch call or to
\* the load of the chunk state, which finds the entry older than 30 days or not
TaskStart(p, max_age_exceeded) ==
    /\ tasks[p].pc = "queued"
    /\ max_age_exceeded =>
          /\ args.since <= args.until /\ Len(chunks) > 1
          /\ chunk_cache[state_key(p)] # NoEntry
    /\ Scheduled(p)
    /\ run.mode = "parallel" => Cardinality(Active) < executor_max_workers
    /\ LET op == "op1"
           d1 == update_repository_progress(db, op, p, "in_progress", None, None, None, None)
       IN IF args.since > args.until
          THEN \* create_date_chunks raises ValueError
               /\ db' = update_repository_progress(d1, op, p, "failed",
                            None, None, None, Some("ValueError"))
               /\ TaskRaisedException(p, "ValueError")
               /\ hist' = hist
               /\ chunk_cache' = chunk_cache
          ELSE /\ db' = update_repository_progress(d1, op, p, "in_progress",
                            None, Some(Len(chunks)), None, None)
               /\ returned' = returned
               /\ run' = run
               /\ IF Len(chunks) = 1
                  THEN /\ tasks' = [tasks EXCEPT ![p] = [NoTask EXCEPT !.pc = "direct"]]
                       /\ hist' = [hist EXCEPT !.fetches[p][0] = @ + 1]
                       /\ chunk_cache' = chunk_cache
                  ELSE LET cache == IF max_age_exceeded
                                    THEN expire(chunk_cache, state_key(p))
                                    ELSE chunk_cache
                           st == load_chunk_state(cache, state_key(p))
                       IN /\ tasks' = [tasks EXCEPT ![p] =
                                 [NoTask EXCEPT !.pc = "chunk", !.i = 1,
                                                !.chunk_states = st.chunk_states,
                                                !.chunk_results = st.chunk_results]]
                          /\ hist' = [hist EXCEPT !.prior[p] = st]
                          /\ chunk_cache' = cache
    /\ UNCHANGED <<args, cfg>>
    /\ UNCHANGED cbVars
    /\ UNCHANGED otherVars

\* a loop that skips no chunk
Remaining_all(p) == tasks[p].i..Len(chunks)

\* the positions of `chunks` from i on that the loop does not skip
Remaining(p) ==
    {k \in tasks[p].i..Len(chunks) :
        ~already_completed(tasks[p].chunk_states, chunks[k].index)}

\* process_chunks_with_state: the loop skips completed chunks, marks the next
\* one in_progress, saves, and calls fetch_repo_commits
ChunkBegin(p) ==
    /\ tasks[p].pc = "chunk"
    /\ Scheduled(p)
    /\ Remaining(p) # {}
    /\ LET k == CHOOSE k \in Remaining(p) : \A j \in Remaining(p) : k <= j
           chunk_index == chunks[k].index
           chunk_states == Put(tasks[p].chunk_states, chunk_index,
                               ChunkState(chunk_index, "in_progress"))
       IN /\ tasks' = [tasks EXCEPT ![p].pc = "fetch", ![p].i = k,
                                    ![p].chunk_states = chunk_states]
          /\ chunk_cache' = save_chunk_state(chunk_cache, state_key(p),
                                chunk_states, tasks[p].chunk_results)
          /\ hist' = [hist EXCEPT !.fetches[p][chunk_index] = @ + 1]
    /\ UNCHANGED <<args, db, run, returned, cfg>>
    /\ UNCHANGED cbVars
    /\ UNCHANGED otherVars

\* process_chunks_with_state: the fetch of the chunk in flight ends; try /
\* except Exception / finally with the save
ChunkFetch(p, outcome) ==
    /\ tasks[p].pc = "fetch"
    /\ Scheduled(p)
    /\ LET chunk == chunks[tasks[p].i]
           chunk_index == chunk.index
           commits == fetch_repo_commits(p, chunk.since, chunk.until)
           chunk_results == IF outcome = "ok"
                            THEN Put(tasks[p].chunk_results, chunk_index, commits)
                            ELSE tasks[p].chunk_results
           chunk_states ==
               IF outcome = "ok"
               THEN [tasks[p].chunk_states EXCEPT ![chunk_index].status = "completed",
                                                  ![chunk_index].commit_count = Len(commits)]
               ELSE IF outcome = "Exception"
               THEN [tasks[p].chunk_states EXCEPT ![chunk_index].status = "failed",
                                                  ![chunk_index].error_message = outcome]
               ELSE tasks[p].chunk_states
       IN /\ chunk_cache' = save_chunk_state(chunk_cache, state_key(p),
                                chunk_states, chunk_results)
          /\ IF outcome = "SystemExit"
             THEN /\ TaskRaisedSystemExit(p)
                  /\ hist' = [hist EXCEPT !.clean = FALSE,
                                          !.raised_chunks[p] = @ \cup {chunk_index}]
             ELSE /\ tasks' = [tasks EXCEPT ![p].pc = "chunk", ![p].i = @ + 1,
                                            ![p].chunk_states = chunk_states,
                                            ![p].chunk_results = chunk_results]
                  /\ run' = run
                  /\ returned' = returned
                  /\ hist' = [hist EXCEPT !.finished[p] = @ \cup {chunk_index},
                                          !.raised_chunks[p] =
                                              IF outcome = "ok" THEN @ ELSE @ \cup {chunk_index},
                                          !.clean = @ /\ outcome = "ok"]
    /\ UNCHANGED <<args, db, cfg>>
    /\ UNCHANGED cbVars
    /\ UNCHANGED otherVars

\* the loop of process_chunks_with_state is over: aggregate, then
\* fetch_repo_commits_chunked records the repository completed and returns
TaskFinish(p) ==
    /\ tasks[p].pc = "chunk"
    /\ Scheduled(p)
    /\ Remaining(p) = {}
    /\ LET result == aggregate_chunk_results(tasks[p].chunk_results)
       IN /\ db' = update_repository_progress(db, "op1", p, "completed",
                       Some(Len(result)), None, Some(Len(chunks)), None)
          /\ TaskReturned(p, result)
    /\ UNCHANGED <<args, chunk_cache, hist, cfg>>
    /\ UNCHANGED cbVars
    /\ UNCHANGED otherVars

\* fetch_repo_commits_chunked with a single chunk: the direct fetch ends
DirectFetch(p, outcome) ==
    /\ tasks[p].pc = "direct"
    /\ Scheduled(p)
    /\ LET result == fetch_repo_commits(p, args.since, args.until)
       IN \/ /\ outcome = "ok"
             /\ db' = update_repository_progress(db, "op1", p, "completed",
                          Some(Len(result)), None, Some(Len(chunks)), None)
             /\ TaskReturned(p, result)
             /\ hist' = hist
          \/ /\ outcome = "Exception"
             /\ db' = update_repository_progress(db, "op1", p, "failed",
                          None, None, None, Some(outcome))
             /\ TaskRaisedException(p, outcome)
             /\ hist' = [hist EXCEPT !.clean = FALSE]
          \/ /\ outcome = "SystemExit"
             /\ db' = db
             /\ TaskRaisedSystemExit(p)
             /\ hist' = [hist EXCEPT !.clean = FALSE]
    /\ UNCHANGED <<args, chunk_cache, cfg>>
    /\ UNCHANGED cbVars
    /\ UNCHANGED otherVars

\* what the first orchestrator call gave, kept for comparison
Remember(r) == [hist EXCEPT !.first = IF hist.run = 1 THEN r ELSE @]

\* process_repositories_with_operation_state after its loop: the final
\* operation status, then the results
FinishSequential ==
    /\ run.mode = "sequential"
    /\ run.pos > Len(run.repos_to_process)
    /\ db' = IF run.failed = 0
             THEN update_operation_status(db, "op1", "completed", None)
             ELSE IF run.completed > 0 THEN db
             ELSE update_operation_status(db, "op1", "failed", Some("All repositories failed"))
    /\ returned' = [kind |-> "map", by |-> run.mode, map |-> run.results]
    /\ hist' = Remember(returned')
    /\ run' = NoRun
    /\ UNCHANGED <<args, chunk_cache, tasks, cfg>>
    /\ UNCHANGED cbVars
    /\ UNCHANGED otherVars

\* fetch_commits_parallel once every future is done: future.result() hands
\* over each result, or raises what the task raised
FinishParallel ==
    /\ run.mode = "parallel"
    /\ \A p \in Repos : tasks[p].pc = "done"
    /\ returned' = IF \E p \in Repos : tasks[p].raised = "SystemExit"
                   THEN [kind |-> "SystemExit", by |-> run.mode, map |-> <<>>]
                   ELSE [kind |-> "map", by |-> run.mode, map |-> run.results]
    /\ hist' = Remember(returned')
    /\ run' = NoRun
    /\ UNCHANGED <<args, db, chunk_cache, tasks, cfg>>
    /\ UNCHANGED cbVars
    /\ UNCHANGED otherVars

\* the process stops: what is in memory is gone, what was written stays
Crash ==
    /\ run.mode # "idle"
    /\ run' = NoRun
    /\ tasks' = [p \in Repos |-> NoTask]
    /\ returned' = [kind |-> "crash", by |-> run.mode, map |-> <<>>]
    /\ UNCHANGED <<args, db, chunk_cache, hist, cfg>>
    /\ UNCHANGED cbVars
    /\ UNCHANGED otherVars

\* ------------------------------------------------ create_date_chunks calls
NotCalled == [called |-> FALSE, raised |-> "none", chunks |-> <<>>]

\* no create_date_chunks call is being looked at
ChunksAtRest ==
    /\ dates = [since |-> 1, until |-> 1, max_days |-> max_days]
    /\ date_chunks = NotCalled

\* one call create_date_chunks(since, until, max_days)
CreateDateChunks ==
    /\ ~date_chunks.called
    /\ LET raised == create_date_chunks_raises(dates.since, dates.until, dates.max_days)
       IN date_chunks' =
             [called |-> TRUE,
              raised |-> raised,
              chunks |-> IF raised = "none"
                         THEN create_date_chunks(dates.since, dates.until, dates.max_days)
                         ELSE <<>>]
    /\ UNCHANGED <<dates, cfg>>
    /\ UNCHANGED <<extraVars, cbVars, orchVars, limVars, storeVars, aggVars>>

\* ------------------------------------------- aggregate_chunk_results calls
NotAggregated == [called |-> FALSE, raised |-> "none", result |-> <<>>]

\* no aggregate_chunk_results call is being looked at
AggregateAtRest ==
    /\ chunk_results_arg = <<>>
    /\ aggregated = NotAggregated

\* one call aggregate_chunk_results(chunk_results)
AggregateChunkResults ==
    /\ ~aggregated.called
    /\ LET raised == aggregate_chunk_results_raises(chunk_results_arg)
       IN aggregated' =
             [called |-> TRUE,
              raised |-> raised,
              result |-> IF raised = "none"
                         THEN aggregate_chunk_results(chunk_results_arg)
                         ELSE <<>>]
    /\ UNCHANGED <<chunk_results_arg, cfg>>
    /\ UNCHANGED <<extraVars, cbVars, orchVars, chunkVars, limVars, storeVars>>

\* ----------------------------------------------------------- rate limiter
\* the refill rate is _capacity / 3600.0 tokens per second: _tokens is kept in
\* units of 1/3600 of a token, so that one refill adds _capacity units
seconds_per_hour == 3600
one_token == seconds_per_hour

\* RateLimitCoordinator.__init__ with 5000 - rate_limit_buffer = capacity
RateLimitCoordinator(capacity) ==
    [_capacity |-> capacity, _tokens |-> capacity * one_token]

NoLimHist == [refilled |-> FALSE, calls |-> 0, returned |-> 0]

\* the limiter nobody has used
LimiterAtRest ==
    /\ limiter = RateLimitCoordinator(1)
    /\ acquirers = [t \in Threads |-> "idle"]
    /\ lim_hist = NoLimHist

\* an acquire test that finds a token whatever the count
has_token_always(l) == TRUE

\* the test of acquire: self._tokens >= 1.0
has_token(l) == l._tokens >= one_token

\* a refill step that does not clamp
refill_unclamped(l) == [l EXCEPT !._tokens = l._tokens + l._capacity]

\* one round of _refill_daemon:
\* self._tokens = min(self._capacity, self._tokens + refill_rate_per_sec)
refill(l) ==
    LET sum == l._tokens + l._capacity
    IN [l EXCEPT !._tokens =
            IF l._capacity * one_token < sum THEN l._capacity * one_token ELSE sum]

\* thread t calls acquire()
AcquireCall(t) ==
    /\ acquirers[t] \in {"idle", "returned"}
    /\ lim_hist.refilled \/ lim_hist.calls < MaxCalls
    /\ acquirers' = [acquirers EXCEPT ![t] = "loop"]
    /\ lim_hist' = IF lim_hist.refilled THEN lim_hist
                   ELSE [lim_hist EXCEPT !.calls = @ + 1]
    /\ UNCHANGED <<limiter, cfg>>
    /\ UNCHANGED <<extraVars, cbVars, orchVars, chunkVars, storeVars, aggVars>>

\* one round of the loop of acquire, under the lock: take a token and return, or
\* go to sleep
AcquireTry(t) ==
    /\ acquirers[t] = "loop"
    /\ IF has_token(limiter)
       THEN /\ limiter' = [limiter EXCEPT !._tokens = @ - one_token]
            /\ acquirers' = [acquirers EXCEPT ![t] = "returned"]
            /\ lim_hist' = IF lim_hist.refilled THEN lim_hist
                           ELSE [lim_hist EXCEPT !.returned = @ + 1]
       ELSE /\ acquirers' = [acquirers EXCEPT ![t] = "sleep"]
            /\ UNCHANGED <<limiter, lim_hist>>
    /\ UNCHANGED cfg
    /\ UNCHANGED <<extraVars, cbVars, orchVars, chunkVars, storeVars, aggVars>>

\* time.sleep(0.1) of acquire is over
AcquireWake(t) ==
    /\ acquirers[t] = "sleep"
    /\ acquirers' = [acquirers EXCEPT ![t] = "loop"]
    /\ UNCHANGED <<limiter, lim_hist, cfg>>
    /\ UNCHANGED <<extraVars, cbVars, orchVars, chunkVars, storeVars, aggVars>>

\* one round of _refill_daemon, after its time.sleep(1.0)
Refill ==
    /\ limiter' = refill(limiter)
    /\ lim_hist' = [refilled |-> TRUE, calls |-> 0, returned |-> 0]
    /\ UNCHANGED <<acquirers, cfg>>
    /\ UNCHANGED <<extraVars, cbVars, orchVars, chunkVars, storeVars, aggVars>>

\* ------------------------------------------------------- fetch of a chunk
\* process_chunks_with_state over FetchChunks chunks of one repository, with
\* fetch_repo_commits as it is: the tenacity retry around _fetch_with_retry,
\* protected_call around api_runner, and acquire() inside api_runner. Nothing is
\* in the commit cache and every fetch is answered in one page.
fetch_endpoint == 1
fetch_thread == 1
FetchChunkIds == 1..FetchChunks

NoFetch ==
    [pc |-> "idle", chunk |-> 0, attempt |-> 0,
     status |-> [c \in FetchChunkIds |-> "pending"],
     attempts |-> [c \in FetchChunkIds |-> 0],
     began |-> [c \in FetchChunkIds |-> NoBreaker],
     timeouts_only |-> [c \in FetchChunkIds |-> TRUE],
     api_calls |-> 0, last |-> "none", all_failed |-> TRUE, opened |-> FALSE,
     cooled |-> FALSE]

\* ------------------------------------------------- retry of failed chunks
\* The chunked fetch and retry_failed_chunks called directly, without an
\* operation id, for repository 1 and the range of `args`.
retry_repo == 1
retry_key == get_chunk_state_key(retry_repo, args.since, args.until)

\* no call of the chunk engine made yet
NoCall ==
    [pc |-> "none", by |-> "none", chunks |-> <<>>, i |-> 0,
     chunk_states |-> <<>>, chunk_results |-> <<>>, result |-> <<>>,
     before |-> [chunk_states |-> <<>>, chunk_results |-> <<>>], fetched |-> {}]

\* chunk index -> the sub-range the last chunked run fetched for it
NoAssigned == [k \in {} |-> <<>>]

ExtraAtRest ==
    /\ call = NoCall
    /\ assigned = NoAssigned
    /\ fetch = NoFetch

\* a selection that takes every chunk that has a state
failed_chunk_indices_any(chunk_states) == DOMAIN chunk_states

\* retry_failed_chunks: the indices of the chunks whose status is 'failed'
failed_chunk_indices(chunk_states) ==
    {k \in DOMAIN chunk_states : chunk_states[k].status = "failed"}

\* retry_failed_chunks: create_date_chunks(since, until), with the default
\* max_days, filtered by the failed indices
failed_chunks(since, until, indices) ==
    SelectSeq(create_date_chunks(since, until, max_days), LAMBDA chunk : chunk.index \in indices)

CallEnded == call.pc \in {"none", "returned", "exited"}

\* fetch_repo_commits_chunked(repo, since, until, max_days=md) up to the loop
\* of process_chunks_with_state; a single chunk is fetched directly
FetchChunked(md, outcome) ==
    /\ CallEnded
    /\ LET all_chunks == create_date_chunks(args.since, args.until, md)
           st == load_chunk_state(chunk_cache, retry_key)
       IN IF Len(all_chunks) = 1
          THEN /\ call' = [NoCall EXCEPT
                     !.pc = IF outcome = "ok" THEN "returned" ELSE "exited",
                     !.by = "fetch_repo_commits_chunked",
                     !.chunks = all_chunks,
                     !.result = IF outcome = "ok"
                                THEN fetch_repo_commits(retry_repo, args.since, args.until)
                                ELSE <<>>,
                     !.fetched = {all_chunks[1]}]
               /\ assigned' = assigned
          ELSE /\ outcome = "ok"
               /\ call' = [NoCall EXCEPT !.pc = "loop", !.by = "fetch_repo_commits_chunked",
                                         !.chunks = all_chunks, !.i = 1,
                                         !.chunk_states = st.chunk_states,
                                         !.chunk_results = st.chunk_results,
                                         !.before = st]
               /\ assigned' = assigned
    /\ UNCHANGED <<cbVars, orchVars, chunkVars, limVars, storeVars, aggVars, cfg, fetch>>

\* retry_failed_chunks up to its return or to the loop of
\* process_chunks_with_state, which loads the chunk state again
RetryFailedChunks ==
    /\ CallEnded
    /\ LET st == load_chunk_state(chunk_cache, retry_key)
           indices == failed_chunk_indices(st.chunk_states)
       IN call' =
            IF DOMAIN st.chunk_states = {}
            THEN [NoCall EXCEPT !.pc = "returned", !.by = "retry_failed_chunks",
                                !.before = st]
            ELSE IF indices = {}
            THEN [NoCall EXCEPT !.pc = "returned", !.by = "retry_failed_chunks",
                                !.before = st,
                                !.result = aggregate_chunk_results(st.chunk_results)]
            ELSE [NoCall EXCEPT !.pc = "loop", !.by = "retry_failed_chunks",
                                !.chunks = failed_chunks(args.since, args.until, indices),
                                !.i = 1,
                                !.chunk_states = st.chunk_states,
                                !.chunk_results = st.chunk_results,
                                !.before = st]
    /\ UNCHANGED assigned
    /\ UNCHANGED <<cbVars, orchVars, chunkVars, limVars, storeVars, aggVars, cfg, fetch>>

\* the positions of call.chunks from i on that the loop does not skip
ToProcess ==
    {k \in call.i..Len(call.chunks) :
        ~(/\ call.chunks[k].index \in DOMAIN call.chunk_states
          /\ call.chunk_states[call.chunks[k].index].status = "completed")}

\* process_chunks_with_state: one round of the loop on the next chunk that is
\* not completed: in_progress, save, fetch, record the outcome, save
ProcessChunk(outcome) ==
    /\ call.pc = "loop"
    /\ ToProcess # {}
    /\ LET k == CHOOSE k \in ToProcess : \A j \in ToProcess : k <= j
           chunk == call.chunks[k]
           chunk_index == chunk.index
           commits == fetch_repo_commits(retry_repo, chunk.since, chunk.until)
           started == Put(call.chunk_states, chunk_index,
                          ChunkState(chunk_index, "in_progress"))
           chunk_results == IF outcome = "ok"
                            THEN Put(call.chunk_results, chunk_index, commits)
                            ELSE call.chunk_results
           chunk_states ==
               IF outcome = "ok"
               THEN [started EXCEPT ![chunk_index].status = "completed",
                                    ![chunk_index].commit_count = Len(commits)]
               ELSE IF outcome = "Exception"
               THEN [started EXCEPT ![chunk_index].status = "failed",
                                    ![chunk_index].error_message = outcome]
               ELSE started
       IN /\ chunk_cache' = save_chunk_state(chunk_cache, retry_key, chunk_states, chunk_results)
          /\ call' = [call EXCEPT
                 !.pc = IF outcome = "SystemExit" THEN "exited" ELSE "loop",
                 !.i = k + 1,
                 !.chunk_states = chunk_states,
                 !.chunk_results = chunk_results,
                 !.fetched = @ \cup {chunk}]
          /\ assigned' = IF call.by = "fetch_repo_commits_chunked"
                         THEN Put(assigned, chunk_index, <<chunk.since, chunk.until>>)
                         ELSE assigned
    /\ UNCHANGED <<args, db, run, tasks, returned, hist, cfg, fetch>>
    /\ UNCHANGED <<cbVars, chunkVars, limVars, storeVars, aggVars>>

\* process_chunks_with_state after its loop: the aggregate is returned
ProcessReturn ==
    /\ call.pc = "loop"
    /\ ToProcess = {}
    /\ call' = [call EXCEPT !.pc = "returned",
                            !.result = aggregate_chunk_results(call.chunk_results)]
    /\ UNCHANGED assigned
    /\ UNCHANGED <<cbVars, orchVars, chunkVars, limVars, storeVars, aggVars, cfg, fetch>>

\* ------------------------------------------- fetch of a chunk, the steps
\* a prologue of CircuitBreaker.call that rejects nothing
rejected_never(b) == FALSE

\* the test of CircuitBreaker.call after the transition check
rejected(b) == b._state = OPEN

\* an api_runner that calls subprocess.run without waiting for acquire()
api_runner_ready_without_acquire(t) == TRUE

\* api_runner: get_rate_limit_coordinator().acquire() has returned
api_runner_ready(t) == acquirers[t] = "returned"

\* the loop of process_chunks_with_state goes on after chunk c: the next chunk
\* is marked in_progress and its fetch starts with attempt 1, or the loop ends
AfterChunk(f, c) ==
    IF c < FetchChunks
    THEN [f EXCEPT !.pc = "attempt", !.chunk = c + 1, !.attempt = 1,
                   !.status[c + 1] = "in_progress"]
    ELSE [f EXCEPT !.pc = "ended"]

\* process_chunks_with_state reaches the fetch of its first chunk
ProcessStart ==
    /\ fetch.pc = "idle"
    /\ fetch' = AfterChunk(fetch, 0)
    /\ UNCHANGED <<call, assigned, cfg>>
    /\ UNCHANGED <<cbVars, orchVars, chunkVars, limVars, storeVars, aggVars>>

\* one attempt of _fetch_with_retry up to func(): protected_call, get_circuit
\* and the locked prologue of CircuitBreaker.call. A rejection finds no stale
\* cache entry, CircuitOpenError is raised again, tenacity does not retry it and
\* process_chunks_with_state marks the chunk failed
FetchCall ==
    /\ fetch.pc = "attempt"
    /\ LET e == fetch_endpoint
           c == fetch.chunk
           b0 == get_circuit(e)
           b1 == _check_and_transition_state(b0)
           f1 == [fetch EXCEPT !.attempts[c] = fetch.attempt,
                               !.began[c] = IF fetch.attempt = 1 THEN b0 ELSE @,
                               !.cooled = @ \/ (fetch.opened /\ b1 # b0)]
       IN /\ breakers' = [breakers EXCEPT ![e] = b1]
          /\ circuits' = IF b1 # b0 THEN [circuits EXCEPT ![e] = save(b1)] ELSE circuits
          /\ constructed' = IF in_BREAKERS(e) THEN constructed
                            ELSE [constructed EXCEPT ![e] = IF @ < 2 THEN @ + 1 ELSE @]
          /\ IF rejected(b1)
             THEN /\ event' = Ev(CircuitOpenError(e).op, fetch_thread, e, "not_invoked", FALSE)
                  /\ fetch' = AfterChunk([f1 EXCEPT !.status[c] = "failed",
                                                    !.last = CircuitOpenError(e).op], c)
             ELSE /\ event' = Ev("admitted", fetch_thread, e, "invoked", b1 # b0)
                  /\ fetch' = [f1 EXCEPT !.pc = "admitted", !.last = "none"]
    /\ UNCHANGED <<now, cfg, streak, callers, call, assigned>>
    /\ UNCHANGED <<orchVars, chunkVars, limVars, storeVars, aggVars>>

\* api_runner calls acquire()
ApiRunnerAcquire ==
    /\ fetch.pc = "admitted"
    /\ acquirers[fetch_thread] = "idle"
    /\ AcquireCall(fetch_thread)

\* a round of the loop of that acquire()
ApiRunnerTry ==
    /\ fetch.pc = "admitted"
    /\ AcquireTry(fetch_thread)

\* subprocess.run of api_runner, from its start to its end, then the epilogue
\* of CircuitBreaker.call and what tenacity, fetch_repo_commits and
\* process_chunks_with_state do with the outcome
FetchRun(outcome) ==
    /\ fetch.pc = "admitted"
    /\ api_runner_ready(fetch_thread)
    /\ LET e == fetch_endpoint
           c == fetch.chunk
           b == IF outcome = "ok" THEN _on_success(breakers[e]) ELSE _on_failure(breakers[e])
           f1 == [fetch EXCEPT !.api_calls = @ + 1,
                               !.last = outcome,
                               !.all_failed = @ /\ outcome # "ok",
                               !.timeouts_only[c] = @ /\ outcome = "TimeoutExpired",
                               !.opened = @ \/ (b._state = OPEN /\ breakers[e]._state # OPEN)]
       IN /\ breakers' = [breakers EXCEPT ![e] = b]
          /\ circuits' = [circuits EXCEPT ![e] = save(b)]
          /\ event' = Ev(IF outcome = "ok" THEN "result" ELSE "exception", fetch_thread, e,
                         IF outcome = "ok" THEN "returned" ELSE "raised", FALSE)
          /\ streak' = [streak EXCEPT ![e] =
                           IF outcome = "ok" THEN 0
                           ELSE IF @ > cfg.cb_failure_threshold THEN @ ELSE @ + 1]
          /\ fetch' =
               IF outcome = "ok"
               THEN AfterChunk([f1 EXCEPT !.status[c] = "completed"], c)
               ELSE IF outcome = "CalledProcessError"
               THEN [f1 EXCEPT !.pc = "exited"]
               ELSE IF fetch.attempt < cfg.retry_attempts
               THEN [f1 EXCEPT !.pc = "attempt", !.attempt = @ + 1]
               ELSE AfterChunk([f1 EXCEPT !.status[c] = "failed"], c)
    /\ acquirers' = [acquirers EXCEPT ![fetch_thread] = "idle"]
    /\ UNCHANGED <<now, cfg, constructed, callers, limiter, lim_hist, call, assigned>>
    /\ UNCHANGED <<orchVars, chunkVars, storeVars, aggVars>>

\* the process is over (sys.exit(1) or the end of the run) and a new process
\* runs the chunks again: _BREAKERS is empty and the limiter is a new one, the
\* circuits table is what was saved
FetchRestart ==
    /\ fetch.pc \in {"exited", "ended"}
    /\ fetch' = NoFetch
    /\ breakers' = [e \in Endpoints |-> NoBreaker]
    /\ constructed' = [e \in Endpoints |-> 0]
    /\ event' = Ev("restart", 0, 0, "none", FALSE)
    /\ limiter' = RateLimitCoordinator(limiter._capacity)
    /\ acquirers' = [t \in Threads |-> "idle"]
    /\ lim_hist' = NoLimHist
    /\ UNCHANGED <<now, cfg, circuits, streak, callers, call, assigned>>
    /\ UNCHANGED <<orchVars, chunkVars, storeVars, aggVars>>

\* the orchestrator at rest: nothing stored, nothing running
OrchAtRest ==
    /\ args = [since |-> 1, until |-> max_days]
    /\ db = [operations |-> [o \in OperationIds |-> NoOperation], repository_progress |-> <<>>]
    /\ chunk_cache = [k \in {state_key(p) : p \in Repos} |-> NoEntry]
    /\ run = NoRun
    /\ tasks = [p \in Repos |-> NoTask]
    /\ returned = NoReturn
    /\ hist = NoHist

InitBreaker ==
    /\ now = 1
    /\ cfg \in [cb_failure_threshold : 1..MaxThreshold, cb_cooldown_sec : 1..MaxCooldown,
                 max_workers : {1}]
    /\ circuits = [e \in Endpoints |-> NoRow]
    /\ breakers = [e \in Endpoints |-> NoBreaker]
    /\ callers = [t \in Threads |-> Idle]
    /\ event = NoEvent
    /\ streak = [e \in Endpoints |-> 0]
    /\ constructed = [e \in Endpoints |-> 0]
    /\ OrchAtRest
    /\ ChunksAtRest
    /\ LimiterAtRest
    /\ StoreAtRest
    /\ ExtraAtRest
    /\ AggregateAtRest

NextBreaker ==
    \/ \E t \in Threads, e \in Endpoints : CallEnter(t, e)
    \/ \E t \in Threads : FuncReturn(t)
    \/ \E t \in Threads : FuncRaise(t)
    \/ Tick
    \/ Restart

SpecBreaker == InitBreaker /\ [][NextBreaker]_vars

\* the breakers at rest
BreakerAtRest ==
    /\ now = 1
    /\ circuits = [e \in Endpoints |-> NoRow]
    /\ breakers = [e \in Endpoints |-> NoBreaker]
    /\ callers = [t \in Threads |-> Idle]
    /\ event = NoEvent
    /\ streak = [e \in Endpoints |-> 0]
    /\ constructed = [e \in Endpoints |-> 0]

\* the date range is invalid (since > until) or spans 1..MaxChunks chunks; the
\* operation row exists when the caller made it with create_operation
InitOrch ==
    /\ BreakerAtRest
    /\ cfg \in [cb_failure_threshold : {1}, cb_cooldown_sec : {1}, max_workers : 1..MaxWorkers]
    /\ args \in [since : {1}, until : {0} \cup {max_days * n : n \in 1..MaxChunks}]
    /\ db \in [operations : [OperationIds -> {NoOperation, create_operation}],
               repository_progress : {<<>>}]
    /\ chunk_cache = [k \in {state_key(p) : p \in Repos} |-> NoEntry]
    /\ run = NoRun
    /\ tasks = [p \in Repos |-> NoTask]
    /\ returned = NoReturn
    /\ hist = NoHist
    /\ ChunksAtRest
    /\ LimiterAtRest
    /\ StoreAtRest
    /\ ExtraAtRest
    /\ AggregateAtRest

NextOrch ==
    \/ \E parallel_enabled \in BOOLEAN : StartRun(parallel_enabled)
    \/ \E p \in Repos, max_age_exceeded \in BOOLEAN : TaskStart(p, max_age_exceeded)
    \/ \E p \in Repos : ChunkBegin(p)
    \/ \E p \in Repos, outcome \in FetchOutcomes : ChunkFetch(p, outcome)
    \/ \E p \in Repos : TaskFinish(p)
    \/ \E p \in Repos, outcome \in FetchOutcomes : DirectFetch(p, outcome)
    \/ FinishSequential
    \/ FinishParallel
    \/ Crash

SpecOrch == InitOrch /\ [][NextOrch]_vars

\* the date samples: the first and the last MaxSpan days of the datetime range
DateSamples == (1..MaxSpan) \cup ((datetime_max - MaxSpan + 1)..datetime_max)

\* a create_date_chunks call on any two sample dates less than MaxSpan days
\* apart, in either order, with max_days in 1..MaxChunkDays
InitChunks ==
    /\ BreakerAtRest
    /\ cfg = [cb_failure_threshold |-> 1, cb_cooldown_sec |-> 1, max_workers |-> 1]
    /\ OrchAtRest
    /\ dates \in {d \in [since : DateSamples, until : DateSamples, max_days : 1..MaxChunkDays] :
                     d.until - d.since < MaxSpan /\ d.since - d.until < MaxSpan}
    /\ date_chunks = NotCalled
    /\ LimiterAtRest
    /\ StoreAtRest
    /\ ExtraAtRest
    /\ AggregateAtRest

NextChunks == CreateDateChunks

SpecChunks == InitChunks /\ [][NextChunks]_vars

\* the dates of the sample commits: before, at and after the epoch, without
\* offset, not a timestamp, None
DateValues == {Aware(-1), Aware(0), Aware(1), Aware(2), Naive(1), Unparsable, NoneDate}

\* the lists of up to MaxCommits dates
DateLists == UNION {[1..n -> DateValues] : n \in 0..MaxCommits}

\* an aggregate_chunk_results call on chunks 0..MaxChunks-1, each with up to
\* MaxCommits commits; the sha of a commit tells where it was put in
InitAggregate ==
    /\ BreakerAtRest
    /\ cfg = [cb_failure_threshold |-> 1, cb_cooldown_sec |-> 1, max_workers |-> 1]
    /\ OrchAtRest
    /\ ChunksAtRest
    /\ LimiterAtRest
    /\ StoreAtRest
    /\ ExtraAtRest
    /\ \E ds \in [0..(MaxChunks - 1) -> DateLists] :
          chunk_results_arg =
              [k \in DOMAIN ds |->
                  [j \in DOMAIN ds[k] |-> [sha |-> <<k, j>>, commit_date |-> ds[k][j]]]]
    /\ aggregated = NotAggregated

NextAggregate == AggregateChunkResults

SpecAggregate == InitAggregate /\ [][NextAggregate]_vars

\* a new limiter with a capacity of 1..MaxCapacity tokens and the threads that
\* will call acquire
InitLimiter ==
    /\ BreakerAtRest
    /\ cfg = [cb_failure_threshold |-> 1, cb_cooldown_sec |-> 1, max_workers |-> 1]
    /\ OrchAtRest
    /\ ChunksAtRest
    /\ limiter \in {RateLimitCoordinator(capacity) : capacity \in 1..MaxCapacity}
    /\ acquirers = [t \in Threads |-> "idle"]
    /\ lim_hist = NoLimHist
    /\ StoreAtRest
    /\ ExtraAtRest
    /\ AggregateAtRest

NextLimiter ==
    \/ \E t \in Threads : AcquireCall(t)
    \/ \E t \in Threads : AcquireTry(t)
    \/ \E t \in Threads : AcquireWake(t)
    \/ Refill

SpecLimiter == InitLimiter /\ [][NextLimiter]_vars

\* the refill daemon keeps running, and a thread inside acquire keeps running:
\* its sleep ends and it gets its turn at the lock. Nothing makes a caller
\* call acquire, and nothing orders the threads that wait for the lock.
FairLimiter ==
    /\ WF_vars(Refill)
    /\ \A t \in Threads : WF_vars(AcquireTry(t)) /\ WF_vars(AcquireWake(t))

SpecLimiterFair == InitLimiter /\ [][NextLimiter]_vars /\ FairLimiter

\* an empty progress store (StateManager._init_database)
InitStore ==
    /\ BreakerAtRest
    /\ cfg = [cb_failure_threshold |-> 1, cb_cooldown_sec |-> 1, max_workers |-> 1]
    /\ args = [since |-> 1, until |-> max_days]
    /\ db = [operations |-> [o \in StoreOperationIds |-> NoOperation],
             repository_progress |-> <<>>]
    /\ chunk_cache = [k \in {state_key(p) : p \in Repos} |-> NoEntry]
    /\ run = NoRun
    /\ tasks = [p \in Repos |-> NoTask]
    /\ returned = NoReturn
    /\ hist = NoHist
    /\ ChunksAtRest
    /\ LimiterAtRest
    /\ StoreAtRest
    /\ ExtraAtRest
    /\ AggregateAtRest

NextStore ==
    \/ \E o \in StoreOperationIds : CreateOperation(o)
    \/ \E o \in StoreOperationIds, names \in {<<1>>, repositories} : AddRepositories(o, names)
    \/ \E o \in StoreOperationIds, r \in Repos, status \in RepositoryStatus,
          error_message \in {None, Some("error")} :
          \* a commit count comes with 'completed' and no error, as in
          \* fetch_repo_commits_chunked
          \E commit_count \in IF status = "completed" /\ error_message = None
                              THEN {None, Some(1)} ELSE {None} :
              UpdateRepositoryProgress(o, r, status, commit_count, error_message)

SpecStore == InitStore /\ [][NextStore]_vars

\* calls of the chunked fetch with several max_days values, and of
\* retry_failed_chunks, over one range of two weeks
InitRetry ==
    /\ BreakerAtRest
    /\ cfg = [cb_failure_threshold |-> 1, cb_cooldown_sec |-> 1, max_workers |-> 1]
    /\ args \in [since : {1}, until : {max_days, max_days * MaxChunks}]
    /\ db = [operations |-> [o \in OperationIds |-> NoOperation], repository_progress |-> <<>>]
    /\ chunk_cache = [k \in {state_key(p) : p \in Repos} |-> NoEntry]
    /\ run = NoRun
    /\ tasks = [p \in Repos |-> NoTask]
    /\ returned = NoReturn
    /\ hist = NoHist
    /\ ChunksAtRest
    /\ LimiterAtRest
    /\ StoreAtRest
    /\ AggregateAtRest
    /\ ExtraAtRest

NextRetry ==
    \/ \E md \in MinChunkDays..max_days, outcome \in FetchOutcomes : FetchChunked(md, outcome)
    \/ RetryFailedChunks
    \/ \E outcome \in FetchOutcomes : ProcessChunk(outcome)
    \/ ProcessReturn

SpecRetry == InitRetry /\ [][NextRetry]_vars

\* one repository fetched chunk by chunk through breaker, limiter and retry,
\* with every outcome of the API call, clock ticks and restarts. A process is
\* followed for as long as the tokens in the bucket at its start last: the
\* refill of a token takes 3600 rounds of the daemon at these capacities
InitFetch ==
    /\ BreakerAtRest
    /\ cfg \in [cb_failure_threshold : 1..MaxThreshold, cb_cooldown_sec : 1..MaxCooldown,
                 max_workers : {1}, retry_attempts : 1..MaxAttempts]
    /\ OrchAtRest
    /\ ChunksAtRest
    /\ limiter \in {RateLimitCoordinator(capacity) : capacity \in 1..FetchCapacity}
    /\ acquirers = [t \in Threads |-> "idle"]
    /\ lim_hist = NoLimHist
    /\ StoreAtRest
    /\ ExtraAtRest
    /\ AggregateAtRest

ApiOutcomes == {"ok", "TimeoutExpired", "CalledProcessError"}

NextFetch ==
    \/ ProcessStart
    \/ FetchCall
    \/ ApiRunnerAcquire
    \/ ApiRunnerTry
    \/ AcquireWake(fetch_thread)
    \/ \E outcome \in ApiOutcomes : FetchRun(outcome)
    \/ Tick
    \/ FetchRestart

SpecFetch == InitFetch /\ [][NextFetch]_vars



\* --------------------------------------------------------- breaker claims
\* the breaker of endpoint e as a call that starts now finds it
Seen(e) == get_circuit(e)

\* thread t's call on endpoint e reached its decision in this step
IsCallEnter(t, e) ==
    /\ callers[t].pc = "idle"
    /\ event'.op \in {"admitted", "CircuitOpenError"}
    /\ event'.thread = t /\ event'.endpoint = e

\* thread t's wrapped function on endpoint e ended in this step
IsFuncEnd(t, e, how) ==
    /\ callers[t].pc = "func" /\ callers[t].endpoint = e
    /\ event'.thread = t /\ event'.func = how

\* C1: from CLOSED with no failures, the k-th failing call in a row leaves the
\* breaker CLOSED while k < failure_threshold and OPEN, with opened_at the time
\* of that failure, when k = failure_threshold.
C1_OpensAtThreshold ==
    [][\A e \in Endpoints :
          (streak'[e] = streak[e] + 1 /\ streak'[e] <= cfg.cb_failure_threshold) =>
              IF streak'[e] < cfg.cb_failure_threshold
              THEN breakers'[e]._state = CLOSED
              ELSE breakers'[e]._state = OPEN /\ breakers'[e]._opened_at = now]_vars

C1_Witness ==
    \E e \in Endpoints :
        /\ cfg.cb_failure_threshold > 1
        /\ streak[e] = cfg.cb_failure_threshold
        /\ event.func = "raised" /\ event.endpoint = e
        /\ breakers[e]._state = OPEN /\ breakers[e]._opened_at = now

\* C2: a call made while the breaker is OPEN and the cooldown has not elapsed
\* raises CircuitOpenError with the endpoint name and does not start the
\* wrapped function.
C2_OpenRejects ==
    [][\A t \in Threads, e \in Endpoints :
          (/\ IsCallEnter(t, e)
           /\ Seen(e)._state = OPEN
           /\ now - Seen(e)._opened_at < cfg.cb_cooldown_sec) =>
              /\ event'.op = "CircuitOpenError" /\ event'.endpoint = e
              /\ event'.func = "not_invoked"
              /\ callers'[t].pc = "idle"]_vars

C2_Witness ==
    \E e \in Endpoints :
        /\ event.op = "CircuitOpenError" /\ event.endpoint = e
        /\ breakers[e]._state = OPEN
        /\ now - breakers[e]._opened_at < cfg.cb_cooldown_sec

\* C3: a call made while the breaker is OPEN and the cooldown has elapsed moves
\* it to HALF_OPEN with consecutive_failures 0 and starts the wrapped function;
\* when that function returns the breaker is CLOSED with consecutive_failures 0
\* and opened_at 0.
C3_CooldownProbe ==
    [][\A t \in Threads, e \in Endpoints :
          /\ (/\ IsCallEnter(t, e)
              /\ Seen(e)._state = OPEN
              /\ now - Seen(e)._opened_at >= cfg.cb_cooldown_sec) =>
                 /\ breakers'[e]._state = HALF_OPEN /\ breakers'[e]._failures = 0
                 /\ callers'[t].pc = "func" /\ callers'[t].endpoint = e
                 /\ event'.func = "invoked"
          /\ (IsFuncEnd(t, e, "returned") /\ callers[t].probe) =>
                 /\ breakers'[e] = [_state |-> CLOSED, _failures |-> 0, _opened_at |-> 0]
                 /\ event'.op = "result"]_vars

C3_Witness ==
    \E e \in Endpoints :
        /\ event.func = "returned" /\ event.probe /\ event.endpoint = e
        /\ breakers[e] = [_state |-> CLOSED, _failures |-> 0, _opened_at |-> 0]

\* C4: when the wrapped function fails while the breaker is HALF_OPEN, the
\* breaker is OPEN again with opened_at the time of the failure, whatever the
\* failure threshold, and the caller gets the function's exception.
C4_HalfOpenFailureReopens ==
    [][\A t \in Threads, e \in Endpoints :
          (IsFuncEnd(t, e, "raised") /\ breakers[e]._state = HALF_OPEN) =>
              /\ breakers'[e]._state = OPEN /\ breakers'[e]._opened_at = now
              /\ event'.op = "exception"]_vars

C4_Witness ==
    \E e \in Endpoints :
        /\ event.func = "raised" /\ event.probe /\ event.endpoint = e
        /\ breakers[e]._state = OPEN /\ breakers[e]._opened_at = now
        /\ breakers[e]._failures < cfg.cb_failure_threshold

\* C15: whenever a breaker call has returned or raised (and at every step in
\* between), the row persisted for the endpoint holds the state, the failure
\* count and opened_at of the breaker in memory, so that a breaker constructed
\* for the endpoint from the store has exactly these values.
C15_PersistedEqualsMemory ==
    \A e \in Endpoints :
        breakers[e] # NoBreaker =>
            /\ circuits[e] # NoRow =>
                  /\ circuits[e].state = breakers[e]._state
                  /\ circuits[e].failures = breakers[e]._failures
                  /\ circuits[e].opened_at = breakers[e]._opened_at
            /\ load(e) = breakers[e]

C15_Witness ==
    \E e \in Endpoints :
        /\ event.op = "exception" /\ event.endpoint = e
        /\ breakers[e]._state = OPEN /\ breakers[e]._opened_at > 1
        /\ circuits[e] = [state |-> OPEN, failures |-> breakers[e]._failures,
                          opened_at |-> breakers[e]._opened_at]

\* C16: in every state, a breaker that is OPEN in memory has opened_at > 0, and
\* so has a persisted row whose state is OPEN.
C16_OpenHasOpenedAt ==
    \A e \in Endpoints :
        /\ breakers[e]._state = OPEN => breakers[e]._opened_at > 0
        /\ circuits[e].state = OPEN => circuits[e].opened_at > 0

C16_Witness ==
    \E e \in Endpoints :
        /\ breakers[e] = NoBreaker
        /\ circuits[e].state = OPEN /\ circuits[e].opened_at > 0
        /\ event.op = "restart"

\* ---------------------------------------------------- orchestrator claims
\* the rows of repository p in the operation
RowsOf(p) ==
    {k \in DOMAIN db.repository_progress :
        /\ db.repository_progress[k].operation_id = "op1"
        /\ db.repository_progress[k].repository_name = p}

\* the chunk indices of the date range
ChunkIndices == {chunks[k].index : k \in DOMAIN chunks}

\* the chunk state of repository p as a new process would load it
Persisted(p) == load_chunk_state(chunk_cache, state_key(p))

\* the chunks of p the chunk engine has marked in_progress in this run (none on
\* the single-chunk path, which keeps no chunk state), and those among them whose
\* fetch has not ended
Started(p) == {c \in ChunkIndices : Len(chunks) > 1 /\ hist.fetches[p][c] > 0}
InFlight(p) == Started(p) \ hist.finished[p]

\* chunk c of p was completed in the chunk state the run loaded
WasCompleted(p, c) ==
    /\ c \in DOMAIN hist.prior[p].chunk_states
    /\ hist.prior[p].chunk_states[c].status = "completed"

\* C5: in a later call with the same operation id and repositories, a
\* repository whose row was completed when the call began is not fetched and
\* its row stays completed.
C5_CompletedNotRefetched ==
    \A k \in hist.done_before :
        /\ db.repository_progress[k].status = "completed"
        /\ \A c \in 0..(MaxChunks - 1) :
              hist.fetches[db.repository_progress[k].repository_name][c] = 0

FinishedArePersisted(p) ==
    \A c \in hist.finished[p] :
        /\ c \in DOMAIN Persisted(p).chunk_states
        /\ \/ Persisted(p).chunk_states[c].status = "failed"
           \/ /\ Persisted(p).chunk_states[c].status = "completed"
              /\ c \in DOMAIN Persisted(p).chunk_results
              /\ Persisted(p).chunk_results[c] =
                    fetch_repo_commits(p, chunks[c + 1].since, chunks[c + 1].until)
              /\ Persisted(p).chunk_states[c].commit_count =
                    Len(Persisted(p).chunk_results[c])

C8_FailureIsolated ==
    \A p \in Repos :
        tasks[p].raised # "no" =>
            /\ returned.kind # "SystemExit"
            /\ LET results == IF run.mode # "idle" THEN run.results ELSE returned.map
               IN p \in DOMAIN results /\ results[p] = <<>>
            /\ \A k \in RowsOf(p) :
                  /\ db.repository_progress[k].status = "failed"
                  /\ db.repository_progress[k].error_message = tasks[p].raised
            /\ run.mode = "idle" => \A q \in Repos : tasks[q].pc = "done"

\* C9: the map the orchestrator returns has exactly the requested repositories
\* as keys, with an empty list for every repository whose processing raised.
C9_CompleteMap ==
    returned.kind = "map" =>
        /\ DOMAIN returned.map = {repositories[k] : k \in DOMAIN repositories}
        /\ \A p \in Repos : tasks[p].raised # "no" => returned.map[p] = <<>>

C9_Witness ==
    /\ returned.kind = "map" /\ returned.by = "sequential"
    /\ hist.run >= 2 /\ hist.done_before # {}
    /\ \E p \in Repos : tasks[p].raised # "no" /\ returned.map[p] = <<>>
    /\ \E p \in Repos : returned.map[p] # <<>>

C14_AtMostMaxWorkersActive ==
    /\ [](Cardinality(Active) <= cfg.max_workers)
    /\ [][\A p \in Repos :
            (tasks[p].pc = "queued" /\ tasks'[p].pc \in {"direct", "chunk", "fetch"})
            => Cardinality(Active) < cfg.max_workers]_vars

C14_Witness ==
    /\ run.mode = "parallel"
    /\ cfg.max_workers < Len(repositories)
    /\ Cardinality(Active) = cfg.max_workers
    /\ \E p \in Repos : tasks[p].pc = "done"
    /\ \A p \in Repos : tasks[p].pc # "queued"

\* the chunks of p persisted as completed
CompletedChunks(p) ==
    {c \in DOMAIN Persisted(p).chunk_states : Persisted(p).chunk_states[c].status = "completed"}

\* C17: when the fetch of a chunk has raised, that chunk is persisted as failed
\* with the error message, the chunk processing of the repository goes on, and
\* when it is over every later chunk that was not completed before has been
\* fetched and the items returned are exactly those of the completed chunks.
C17_ChunkFailureIsolated ==
    \A p \in Repos : \A c \in hist.raised_chunks[p] :
        /\ c \in DOMAIN Persisted(p).chunk_states
        /\ Persisted(p).chunk_states[c].status = "failed"
        /\ Persisted(p).chunk_states[c].error_message # "NULL"
        /\ tasks[p].raised = "no"
        /\ tasks[p].pc = "done" =>
              /\ \A c2 \in ChunkIndices :
                    (c2 > c /\ ~WasCompleted(p, c2)) => hist.fetches[p][c2] = 1
              /\ {<<tasks[p].result[m]._chunk_index, tasks[p].result[m].sha>> :
                      m \in DOMAIN tasks[p].result}
                 = UNION {{<<c3, Persisted(p).chunk_results[c3][j].sha>> :
                              j \in DOMAIN Persisted(p).chunk_results[c3]} :
                          c3 \in CompletedChunks(p)}

\* the repositories the run that has ended processed, and those among them
\* whose processing raised
Processed == {p \in Repos : tasks[p].pc = "done"}
Failed == {p \in Processed : tasks[p].raised # "no"}

\* C19: when an orchestrator call over several repositories has returned, in
\* sequential or in parallel mode, the status of the operation is completed if
\* every repository it processed succeeded, failed if every one failed, and
\* not failed if some succeeded and some failed.
C19_FinalOperationStatus ==
    (/\ returned.kind = "map"
     /\ db.operations["op1"] # NoOperation
     /\ Processed # {}) =>
        /\ Failed = {} => db.operations["op1"].status = "completed"
        /\ Failed = Processed => db.operations["op1"].status = "failed"
        /\ (Failed # {} /\ Failed # Processed) => db.operations["op1"].status # "failed"

\* ------------------------------------------------- progress store claims
\* the rows of operation o that pending() is meant to list
PendingRows(o) ==
    {k \in DOMAIN db.repository_progress :
        /\ db.repository_progress[k].operation_id = o
        /\ db.repository_progress[k].status \in {"pending", "in_progress", "failed"}}

\* C18: get_pending_repositories(operation_id) lists exactly the repository
\* names of that operation whose status is pending, in_progress or failed, each
\* name once, in ascending order.
C18_PendingListsEachNameOnce ==
    \A o \in StoreOperationIds :
        LET names == get_pending_repositories(db, o)
        IN /\ {names[i] : i \in DOMAIN names} =
                 {db.repository_progress[k].repository_name : k \in PendingRows(o)}
           /\ \A i, j \in DOMAIN names : i < j => names[i] < names[j]

\* C20: an update_repository_progress call adds one to the retry_count of the
\* rows it updates when it sets the status failed, with or without an error
\* message, and leaves retry_count alone when it sets another status.
C20_RetryCountCountsFailures ==
    [][store_event'.call = "update_repository_progress" =>
          \A k \in DOMAIN db.repository_progress :
              db'.repository_progress[k].retry_count =
                  IF /\ k \in Matching(db, store_event'.operation_id,
                                        store_event'.repository_name)
                     /\ store_event'.status = "failed"
                  THEN db.repository_progress[k].retry_count + 1
                  ELSE db.repository_progress[k].retry_count]_vars

\* C25: a step of a call on the breaker of one endpoint changes neither the
\* fields nor the stored row of the breaker of any other endpoint, and within
\* one process at most one CircuitBreaker is built per endpoint, so every
\* get_circuit for the endpoint gives that one.
C25_BreakersIndependent ==
    /\ [](\A e \in Endpoints :
            /\ constructed[e] <= 1
            /\ constructed[e] = 1 <=> breakers[e] # NoBreaker)
    /\ [][event'.op \in {"CircuitOpenError", "admitted", "result", "exception"} =>
            \A e \in Endpoints :
                (breakers'[e] # breakers[e] \/ circuits'[e] # circuits[e]) =>
                    e = event'.endpoint]_vars

\* both endpoints have their breaker, used by calls of two threads at once,
\* the one just opened and the other closed
C25_Witness ==
    /\ event.op = "exception" /\ event.endpoint = 1
    /\ breakers[1]._state = OPEN /\ breakers[2]._state = CLOSED
    /\ constructed = [e \in Endpoints |-> 1]
    /\ \E t \in Threads : callers[t].pc = "func" /\ callers[t].endpoint = 2

\* C26: a call whose function returns while the breaker is CLOSED gives the
\* result to its caller and leaves the breaker CLOSED with no failures; a call
\* whose function raises gives the exception to its caller with the failure
\* counted; and a CLOSED breaker opens only on a failure that is at least the
\* failure_threshold-th since the last successful call.
C26_SuccessResetsFailures ==
    [][\A t \in Threads, e \in Endpoints :
          /\ (IsFuncEnd(t, e, "returned") /\ breakers[e]._state = CLOSED) =>
                /\ event'.op = "result"
                /\ breakers'[e]._state = CLOSED /\ breakers'[e]._failures = 0
                /\ callers'[t].pc = "idle"
          /\ IsFuncEnd(t, e, "raised") =>
                /\ event'.op = "exception"
                /\ breakers'[e]._failures = breakers[e]._failures + 1
                /\ callers'[t].pc = "idle"
          /\ (breakers[e]._state = CLOSED /\ breakers'[e]._state = OPEN) =>
                /\ event'.op = "exception" /\ event'.endpoint = e
                /\ breakers'[e]._failures >= cfg.cb_failure_threshold
                /\ streak'[e] >= cfg.cb_failure_threshold]_vars

\* with a threshold above 1, a call that had been let through the CLOSED
\* breaker returned, the count is 0, and another call on the endpoint is
\* still running
C26_Witness ==
    \E e \in Endpoints :
        /\ cfg.cb_failure_threshold > 1
        /\ event.op = "result" /\ event.endpoint = e /\ ~event.probe
        /\ breakers[e]._state = CLOSED /\ breakers[e]._failures = 0
        /\ \E t \in Threads : callers[t].pc = "func" /\ callers[t].endpoint = e

\* the rows of operation o
OperationRows(o) ==
    {k \in DOMAIN db.repository_progress : db.repository_progress[k].operation_id = o}

RECURSIVE SumOver(_, _)
\* the sum of f over the set ks
SumOver(f, ks) ==
    IF ks = {} THEN 0
    ELSE LET k == CHOOSE k \in ks : TRUE IN f[k] + SumOver(f, ks \ {k})

\* C21: after any sequence of store calls, the completed_repositories of an
\* operation is the number of its rows whose status is completed or skipped,
\* and its total_commits is the sum of commit_count over its rows.
C21_OperationCountersDerived ==
    \A o \in StoreOperationIds :
        db.operations[o] # NoOperation =>
            /\ db.operations[o].completed_repositories =
                  Cardinality({k \in OperationRows(o) :
                      db.repository_progress[k].status \in {"completed", "skipped"}})
            /\ db.operations[o].total_commits =
                  SumOver([k \in DOMAIN db.repository_progress |->
                              db.repository_progress[k].commit_count], OperationRows(o))

\* C22: after any sequence of add_repositories_to_operation calls, repeated
\* calls with the same operation id and names included, there is exactly one
\* row per (operation_id, repository_name) and total_repositories is the number
\* of rows of the operation; a call that adds rows leaves the status of the
\* rows that existed alone.
C22_OneRowPerRepository ==
    /\ [](\A o \in StoreOperationIds :
            /\ \A k1, k2 \in OperationRows(o) :
                  db.repository_progress[k1].repository_name =
                      db.repository_progress[k2].repository_name => k1 = k2
            /\ db.operations[o] # NoOperation =>
                  db.operations[o].total_repositories = Cardinality(OperationRows(o)))
    /\ [][Len(db'.repository_progress) > Len(db.repository_progress) =>
            \A k \in DOMAIN db.repository_progress :
                db'.repository_progress[k].status = db.repository_progress[k].status]_vars

\* C23: once the status of an operation is completed or failed, no step of an
\* orchestrator run changes it.
C23_TerminalStatusKept ==
    [][\A o \in OperationIds :
          db.operations[o].status \in {"completed", "failed"} =>
              db'.operations[o].status = db.operations[o].status]_vars

\* C24: when since > until, no repository status other than the initial
\* pending is written to the progress store, no fetch is made, and the
\* orchestrator does not return a result map (the error reaches its caller).
C24_InvalidRangeReachesCaller ==
    args.since > args.until =>
        /\ \A k \in DOMAIN db.repository_progress :
              db.repository_progress[k].status = "pending"
        /\ \A p \in Repos : \A c \in DOMAIN hist.fetches[p] : hist.fetches[p][c] = 0
        /\ returned.kind # "map"

\* the chunks of repository p persisted as failed
FailedChunks(p) ==
    {c \in DOMAIN Persisted(p).chunk_states : Persisted(p).chunk_states[c].status = "failed"}

\* C29: a repository processed in chunks has a completed row only when every
\* chunk is persisted completed, that row's completed_chunks is the number of
\* chunks persisted completed, and a repository with a failed chunk has no
\* completed row and is among the pending repositories.
C29_CompletedOnlyWithAllChunks ==
    \A p \in Repos :
        Len(chunks) > 1 =>
            /\ \A k \in RowsOf(p) :
                  db.repository_progress[k].status = "completed" =>
                      /\ CompletedChunks(p) = ChunkIndices
                      /\ db.repository_progress[k].completed_chunks =
                            Cardinality(CompletedChunks(p))
            /\ (FailedChunks(p) # {} /\ RowsOf(p) # {}) =>
                  /\ \A k \in RowsOf(p) : db.repository_progress[k].status # "completed"
                  /\ \E i \in DOMAIN get_pending_repositories(db, "op1") :
                        get_pending_repositories(db, "op1")[i] = p

\* the persisted status of chunk c of repository p
ChunkStatus(p, c) ==
    IF c \in DOMAIN Persisted(p).chunk_states
    THEN Persisted(p).chunk_states[c].status
    ELSE "absent"

\* this step marks chunk c of p in_progress and calls its fetch
EntersInProgress(p, c) ==
    /\ Len(chunks) > 1
    /\ hist'.run = hist.run
    /\ hist'.fetches[p][c] = hist.fetches[p][c] + 1

\* the moves of the status of chunk c of p that the chunk engine makes
EngineMove(p, c) ==
    LET a == ChunkStatus(p, c)
        b == ChunkStatus(p, c)'
    IN /\ a # b =>
             \/ a \in {"absent", "pending", "failed", "in_progress"} /\ b = "in_progress"
             \/ a = "in_progress" /\ b \in {"completed", "failed"}
       /\ EntersInProgress(p, c) =>
             /\ b = "in_progress"
             /\ InFlight(p) = {}
             /\ \A c2 \in ChunkIndices : hist.fetches[p][c2] > 0 => c2 < c

EntryExpired(p) ==
    chunk_cache[state_key(p)] # NoEntry /\ chunk_cache'[state_key(p)] = NoEntry

Partitions(cs, since, until, md) ==
    /\ Len(cs) >= 1
    /\ cs[1].since = since
    /\ cs[Len(cs)].until = until
    /\ \A k \in 1..Len(cs) :
          /\ cs[k].index = k - 1
          /\ cs[k].since <= cs[k].until
          /\ cs[k].until - cs[k].since + 1 <= md
          /\ k < Len(cs) => /\ cs[k + 1].since = cs[k].until + 1
                            /\ cs[k].until - cs[k].since + 1 = md

\* C11: for every since <= until and max_days >= 1 a create_date_chunks call
\* returns, and its chunks partition [since, until] in order into spans of at
\* most max_days days.
C11_ChunksPartitionRange ==
    (date_chunks.called /\ dates.since <= dates.until) =>
        /\ date_chunks.raised = "none"
        /\ Partitions(date_chunks.chunks, dates.since, dates.until, dates.max_days)

\* --------------------------------------------------- rate limiter claims
\* the acquire calls that are neither returned nor asleep
Deciding == {t \in Threads : acquirers[t] = "loop"}

\* C12: as long as no refill has occurred, of the M acquire calls made on a
\* bucket that started with N whole tokens at most N have returned, the token
\* count is N minus the number returned and not negative, a caller is asleep
\* only when no token is left, and once every caller has had its turn exactly
\* min(N, M) have returned.
C12_GrantsMinOfTokensAndCallers ==
    ~lim_hist.refilled =>
        LET N == limiter._capacity
            M == lim_hist.calls
        IN /\ lim_hist.returned <= N
           /\ lim_hist.returned <= M
           /\ limiter._tokens = (N - lim_hist.returned) * one_token
           /\ limiter._tokens >= 0
           /\ \A t \in Threads : acquirers[t] = "sleep" => lim_hist.returned = N
           /\ Deciding = {} => lim_hist.returned = IF N < M THEN N ELSE M

C12_Witness ==
    /\ ~lim_hist.refilled
    /\ lim_hist.calls > limiter._capacity
    /\ lim_hist.returned = limiter._capacity
    /\ Deciding = {}
    /\ \E t \in Threads : acquirers[t] = "sleep"
    /\ limiter._tokens = 0

\* C13: in every state 0 <= tokens <= capacity.
C13_TokensWithinBucket ==
    /\ 0 <= limiter._tokens
    /\ limiter._tokens <= limiter._capacity * one_token

C13_Witness ==
    /\ lim_hist.refilled
    /\ 0 < limiter._tokens /\ limiter._tokens < one_token
    /\ \E t \in Threads : acquirers[t] = "sleep"
    /\ \E t \in Threads : acquirers[t] = "returned"

\* C27: while the refill daemon keeps running every acquire call that is
\* blocked returns in the end, whatever the other callers do; and every refill
\* tick brings an empty bucket capacity/3600 of a token closer to a whole
\* token, so that a single waiter returns after at most ceil(3600/capacity)
\* ticks.
C27_EveryAcquireReturns ==
    /\ \A t \in Threads : (acquirers[t] \in {"loop", "sleep"}) ~> (acquirers[t] = "returned")
    /\ [][limiter'._tokens > limiter._tokens =>
            \/ limiter'._tokens >= one_token
            \/ limiter'._tokens = limiter._tokens + limiter._capacity]_vars

\* ------------------------------------------------------ aggregation claims
\* the items put in, each named by its chunk index and its position
ItemsIn == {<<k, j>> : k \in DOMAIN chunk_results_arg, j \in 1..MaxCommits} \cap
           UNION {{<<k, j>> : j \in DOMAIN chunk_results_arg[k]} : k \in DOMAIN chunk_results_arg}

\* the item has a timestamp that parses
HasTimestamp(item) == item.commit_date.kind \in {"aware", "naive"}

\* item a was met before item b: lower chunk index, or same chunk and earlier
MetBefore(a, b) ==
    \/ a.sha[1] < b.sha[1]
    \/ a.sha[1] = b.sha[1] /\ a.sha[2] < b.sha[2]

\* C28: aggregate_chunk_results returns every item of every chunk exactly once,
\* the items with a timestamp first, newest first, then the items whose
\* timestamp is missing or does not parse in the order they were met; items
\* with equal timestamps keep the order they were met in.
C28_AggregateOrder ==
    aggregated.called =>
        LET r == aggregated.result IN
        /\ aggregated.raised = "none"
        /\ Len(r) = Cardinality(ItemsIn)
        /\ {r[i].sha : i \in DOMAIN r} = ItemsIn
        /\ \A i \in DOMAIN r :
              r[i].commit_date = chunk_results_arg[r[i].sha[1]][r[i].sha[2]].commit_date
        /\ \A i, j \in DOMAIN r :
              i < j =>
                  IF HasTimestamp(r[i])
                  THEN HasTimestamp(r[j]) =>
                          \/ r[i].commit_date.at > r[j].commit_date.at
                          \/ /\ r[i].commit_date.at = r[j].commit_date.at
                             /\ MetBefore(r[i], r[j])
                  ELSE ~HasTimestamp(r[j]) /\ MetBefore(r[i], r[j])

\* ------------------------------------------------- store summary claims
\* C39: in every state of the progress store, each operation has
\* 0 <= completed_repositories <= total_repositories, and the percentage that
\* get_operation_summary reports lies between 0 and 100.
C39_CompletedWithinTotal ==
    \A o \in StoreOperationIds :
        db.operations[o] # NoOperation =>
            /\ 0 <= db.operations[o].completed_repositories
            /\ db.operations[o].completed_repositories <= db.operations[o].total_repositories
            /\ 0 <= progress_percentage(db.operations[o])
            /\ progress_percentage(db.operations[o]) <= 100 * 100

\* ------------------------------------------------- breaker call claims
\* the threads whose wrapped function is running on endpoint e
Executing(e) == {t \in Threads : callers[t].pc = "func" /\ callers[t].endpoint = e}

\* C36: while a breaker is HALF_OPEN and the function of the call that moved it
\* there is running as the probe, no other caller of that breaker is admitted
\* to run its function.
C36_SingleProbe ==
    [][\A t \in Threads, e \in Endpoints :
          (/\ IsCallEnter(t, e)
           /\ event'.op = "admitted"
           /\ breakers'[e]._state = HALF_OPEN)
          => ~\E u \in Executing(e) : u # t /\ callers[u].probe]_vars

\* C37: a call rejected with CircuitOpenError leaves the breaker's state,
\* failure count and opened_at as they were, in memory and in the circuits
\* table, and no failure is counted for it.
C37_RejectionChangesNothing ==
    [][\A t \in Threads, e \in Endpoints :
          (IsCallEnter(t, e) /\ event'.op = "CircuitOpenError")
          => /\ breakers'[e] = Seen(e)
             /\ circuits' = circuits
             /\ streak' = streak
             /\ \A e2 \in Endpoints : e2 # e => breakers'[e2] = breakers[e2]]_vars

\* a call was rejected some time after the breaker opened, before the cooldown
\* was over, and the breaker and its row still carry the opening time
C37_Witness ==
    /\ event.op = "CircuitOpenError"
    /\ LET e == event.endpoint
       IN /\ breakers[e]._state = OPEN
          /\ now > breakers[e]._opened_at
          /\ now - breakers[e]._opened_at < cfg.cb_cooldown_sec
          /\ breakers[e]._failures >= cfg.cb_failure_threshold
          /\ circuits[e] = save(breakers[e])

\* ---------------------------------------------------------- fetch claims
\* the fetch frame moved in this step, within one process
FetchStep == fetch' # fetch /\ fetch.pc \in {"attempt", "admitted"}

\* no fetch makes more than retry_attempts attempts
C34_Bounded ==
    /\ fetch.attempt <= cfg.retry_attempts
    /\ \A c \in FetchChunkIds : fetch.attempts[c] <= cfg.retry_attempts

\* another attempt of the same fetch follows a timeout only, and a rejection
\* ends the fetch
C34_OnlyTimeoutRetried ==
    /\ (FetchStep /\ fetch'.chunk = fetch.chunk /\ fetch'.attempt # fetch.attempt)
          => fetch'.last = "TimeoutExpired" /\ fetch'.attempt = fetch.attempt + 1
    /\ (FetchStep /\ fetch'.last = "CircuitOpenError")
          => fetch'.chunk # fetch.chunk \/ fetch'.pc = "ended"

\* C34: one fetch makes at most retry_attempts attempts; only a timeout is
\* followed by another attempt and a circuit-open rejection by none; and the
\* number of attempts does not depend on the breaker's failure count: a fetch
\* that started on a CLOSED breaker and saw nothing but timeouts has made
\* retry_attempts attempts when it ends with its error.
C34_AttemptsIndependentOfBreaker ==
    /\ [](C34_Bounded)
    /\ [][C34_OnlyTimeoutRetried]_vars
    /\ [](\A c \in FetchChunkIds :
            (/\ fetch.status[c] = "failed"
             /\ fetch.timeouts_only[c]
             /\ fetch.began[c]._state = CLOSED)
            => fetch.attempts[c] = cfg.retry_attempts)

\* a chunk's fetch is attempted while the breaker is OPEN and the cooldown has
\* not elapsed: the chunk is marked failed, no API call is made, no token taken
RejectedWithoutCall ==
    (/\ FetchStep
     /\ fetch.pc = "attempt"
     /\ Seen(fetch_endpoint)._state = OPEN
     /\ now - Seen(fetch_endpoint)._opened_at < cfg.cb_cooldown_sec)
    => /\ fetch'.status[fetch.chunk] = "failed"
       /\ fetch'.api_calls = fetch.api_calls
       /\ limiter' = limiter

\* C35, as stated: a chunk attempted while the breaker is OPEN and the cooldown
\* has not elapsed is marked failed without an API call, and in a run in which
\* every API call fails the number of API calls is at most failure_threshold.
C35_CallsBoundedByThreshold ==
    /\ [][RejectedWithoutCall]_vars
    /\ [](fetch.all_failed => fetch.api_calls <= cfg.cb_failure_threshold)

\* C35, amended: the bound on the API calls holds as long as no cooldown has
\* elapsed since the breaker opened in the run; every cooldown that elapses
\* lets one more call through as the HALF_OPEN probe.
C35_CallsBoundedUntilCooldown ==
    /\ [][RejectedWithoutCall]_vars
    /\ []((fetch.all_failed /\ ~fetch.cooled) => fetch.api_calls <= cfg.cb_failure_threshold)

\* the breaker opened on the second failing call of the run, the two remaining
\* chunks were rejected before the cooldown elapsed, and the run is over
C35_Witness ==
    /\ fetch.pc = "ended"
    /\ fetch.opened /\ ~fetch.cooled /\ fetch.all_failed
    /\ cfg.cb_failure_threshold = 2
    /\ fetch.api_calls = 2
    /\ fetch.last = "CircuitOpenError"
    /\ \A c \in FetchChunkIds : fetch.status[c] = "failed"
    /\ fetch.attempts[FetchChunks] = 1

\* C38: a call rejected by the OPEN breaker takes no token from the limiter,
\* and every API call that is executed was preceded by one acquire() of its
\* own that took exactly one token.
C38_TokenPerExecutedCall ==
    [][/\ (FetchStep /\ fetch'.last = "CircuitOpenError")
            => limiter' = limiter /\ acquirers' = acquirers
       /\ (FetchStep /\ fetch'.api_calls # fetch.api_calls)
            => /\ fetch'.api_calls = fetch.api_calls + 1
               /\ acquirers[fetch_thread] = "returned"
               /\ acquirers'[fetch_thread] = "idle"
       /\ (acquirers[fetch_thread] # "returned" /\ acquirers'[fetch_thread] = "returned")
            => /\ limiter'._tokens = limiter._tokens - one_token
               /\ fetch.pc = "admitted"
       /\ limiter'._tokens < limiter._tokens
            => acquirers[fetch_thread] = "loop" /\ acquirers'[fetch_thread] = "returned"]_vars

\* an executed call has used the only token and a later chunk was rejected
\* while the bucket was still empty
C38_Witness ==
    /\ fetch.api_calls >= 1
    /\ fetch.last = "CircuitOpenError"
    /\ limiter._tokens = 0
    /\ ~lim_hist.refilled

\* ---------------------------------------------------- aggregator claims
\* tasks of the running call that ended with the given kind of outcome
EndedWell == {p \in Repos : tasks[p].pc = "done" /\ tasks[p].raised = "no"}
EndedByException == {p \in Repos : tasks[p].pc = "done" /\ tasks[p].raised \notin {"no", "SystemExit"}}

\* C33: fetch_commits_parallel returns only when every submitted task is done,
\* and then completed + failed of the progress aggregator is the number of
\* submitted repositories; while it runs, every task that has ended by a
\* return or an exception has been counted once, whatever the order of the
\* workers' steps.
C33_EveryTaskCountedOnce ==
    /\ [](run.mode = "parallel" =>
            /\ run.completed = Cardinality(EndedWell)
            /\ run.failed = Cardinality(EndedByException))
    /\ [][(run.mode = "parallel" /\ returned'.kind = "map" /\ returned'.by = "parallel"
             /\ run'.mode = "idle") =>
            /\ \A p \in Repos : tasks[p].pc = "done"
            /\ run.completed + run.failed = Len(repositories)]_vars

\* a parallel run with fewer workers than repositories in which one task has
\* returned, the other has raised, and both are counted
C33_Witness ==
    /\ run.mode = "parallel"
    /\ cfg.max_workers < Len(repositories)
    /\ run.completed = 1 /\ run.failed = 1
    /\ \A p \in Repos : tasks[p].pc = "done"

\* ------------------------------------------------------ chunk blob claims
\* the persisted chunk-state entries
Blobs == {chunk_cache[key] : key \in {k \in DOMAIN chunk_cache : chunk_cache[k].found}}

\* C40: in every persisted chunk-state entry, chunk_results has an entry for a
\* chunk index exactly when that chunk's status is completed, and the chunk's
\* commit_count is the number of items stored for it.
C40_ItemsIffCompleted ==
    \A blob \in Blobs :
        /\ DOMAIN blob.chunk_results =
              {s \in DOMAIN blob.chunks : blob.chunks[s].status = "completed"}
        /\ \A s \in DOMAIN blob.chunk_results :
              s \in DOMAIN blob.chunks =>
                  blob.chunks[s].commit_count = Len(blob.chunk_results[s])

\* an entry with a completed chunk that has items, a failed chunk and a chunk
\* left in_progress
C40_Witness ==
    \E blob \in Blobs :
        /\ \E s \in DOMAIN blob.chunk_results : Len(blob.chunk_results[s]) > 0
        /\ \E s \in DOMAIN blob.chunks : blob.chunks[s].status = "failed"
        /\ \E s \in DOMAIN blob.chunks : blob.chunks[s].status = "in_progress"

\* ----------------------------------------------------------- retry claims
\* the chunk state as persisted when the current call loaded it
StatusBefore(k) ==
    IF k \in DOMAIN call.before.chunk_states
    THEN call.before.chunk_states[k].status
    ELSE "absent"

ItemsBefore(k) ==
    IF k \in DOMAIN call.before.chunk_results THEN call.before.chunk_results[k] ELSE <<>>

====
